---- MODULE Spec2Model ----
(***************************************************************************)
(* Time-scale engine of sims_utils: the ModifiedJulianDate class           *)
(* (ModifiedJulianDate.py) and the table-driven conversions of             *)
(* timeTransformations.py, with the part of Python's warnings machinery    *)
(* that both of them use.                                                  *)
(*                                                                         *)
(* Floating point MJDs are modelled as integers in fixed units, stated at  *)
(* each definition.  Optional values (Python's None) are <<>> / <<v>>.     *)
(***************************************************************************)
EXTENDS Integers, Sequences, FiniteSets, TLC

VARIABLES
    objs,      \* the two names a caller binds ModifiedJulianDate objects to
    call,      \* the last call made: operation, arguments, outcome
    registry,  \* the __warningregistry__ entries of the two modules
    filters    \* the action of the warnings filter in force

vars == <<objs, call, registry, filters>>

None == <<>>
Some(v) == <<v>>

(***************************************************************************)
(* Python warnings: warnings.warn(text) with the default category.         *)
(* A warning already in the registry of the calling module is dropped      *)
(* before the filters are consulted; under the "default" action a shown    *)
(* warning is entered in the registry, under "always" it is not.           *)
(***************************************************************************)
FilterActions == {"default", "always"}

warn_shown(reg, filt, key) == key \notin reg

warn_registry(reg, filt, key) ==
    IF key \notin reg /\ filt = "default" THEN reg \cup {key} ELSE reg

\* the result of issuing the warnings of emitted, in order
RECURSIVE warn_all(_, _, _)
warn_all(reg, filt, emitted) ==
    IF emitted = <<>> THEN [registry |-> reg, shown |-> <<>>]
    ELSE LET key  == Head(emitted)
             rest == warn_all(warn_registry(reg, filt, key), filt, Tail(emitted))
         IN  [registry |-> rest.registry,
              shown    |-> IF warn_shown(reg, filt, key)
                           THEN <<key>> \o rest.shown ELSE rest.shown]

(***************************************************************************)
(* astropy.time.Time as ModifiedJulianDate uses it.  An MJD is an integer  *)
(* number of units, Day units to the day.  UTC and TAI differ by Dat0      *)
(* units before the day that starts at LeapDay0 (UTC), and by              *)
(* Dat0 + LeapLen after it; the UTC day with the leap is LeapLen longer,   *)
(* and its MJD is stretched over that longer day.                          *)
(***************************************************************************)
Day == 12
LeapDay0 == 0
Dat0 == 6
LeapLen == 6
\* UTC bounds of the UT1-UTC table (IERSRangeError outside them)
IersLo == 0
IersHi == 6
\* TT - TAI
TtOffset == 3

UtcToTai(u) ==
    IF u < LeapDay0 THEN u + Dat0
    ELSE IF u < LeapDay0 + Day
         THEN LeapDay0 + Dat0 + ((u - LeapDay0) * (Day + LeapLen)) \div Day
         ELSE u + Dat0 + LeapLen

TaiToUtc(t) ==
    IF t < LeapDay0 + Dat0 THEN t - Dat0
    ELSE IF t < LeapDay0 + Dat0 + Day + LeapLen
         THEN LeapDay0 + ((t - (LeapDay0 + Dat0)) * Day) \div (Day + LeapLen)
         ELSE t - Dat0 - LeapLen

Time(val, scale) == [scale |-> scale, val |-> val]

TimeTai(t) == IF t.scale = "tai" THEN t.val ELSE UtcToTai(t.val)
TimeUtc(t) == IF t.scale = "utc" THEN t.val ELSE TaiToUtc(t.val)
TimeTt(t)  == TimeTai(t) + TtOffset
\* TDB - TT is a small periodic function of TT
TimeTdb(t) == TimeTt(t) + ((TimeTt(t) \div 3) % 3) - 1

IersInRange(t) == TimeUtc(t) >= IersLo /\ TimeUtc(t) <= IersHi
\* UT1-UTC inside the table, in units (one unit standing for one second)
TimeDeltaUt1Utc(t) == ((TimeUtc(t) \div 2) % 3) - 1
TimeUt1(t) == TimeUtc(t) + TimeDeltaUt1Utc(t)

\* Time.__eq__: the other time is brought to this one's scale
TimeEq(t1, t2) ==
    t1.val = (IF t1.scale = "tai" THEN TimeTai(t2) ELSE TimeUtc(t2))

(***************************************************************************)
(* class ModifiedJulianDate.  An object is a record of its fields; ncomp   *)
(* counts, per property, the times its value was computed (it stops        *)
(* counting at 2).                                                         *)
(***************************************************************************)
Slots == {"mjd1", "mjd2"}
Attrs == {"TAI", "UTC", "UT1", "dut1", "TT", "TDB"}

\* the MJDs a caller constructs objects from: whole half days
MaxTick == 1
MjdInputs == {k * (Day \div 2) : k \in 0..MaxTick}

NoMjdMessage == "You must specify either TAI or UTC to instantiate ModifiedJulianDate"

Counted(n) == IF n < 2 THEN n + 1 ELSE n

\* __init__ raises
init_raises(TAI, UTC) == TAI = None /\ UTC = None

\* what it raises
init_errorM == [type |-> "ValueError", msg |-> NoMjdMessage]
init_error == [type |-> "RuntimeError", msg |-> NoMjdMessage]

\* __init__ when it does not raise
init_object(TAI, UTC) ==
    LET base == [_tt |-> None, _tdb |-> None, _ut1 |-> None, _dut1 |-> None,
                 ncomp |-> [a \in Attrs |-> 0]]
    IN  IF TAI # None
        THEN base @@ [_time |-> Time(TAI[1], "tai"), _tai |-> TAI, _utc |-> None]
        ELSE base @@ [_time |-> Time(UTC[1], "utc"), _utc |-> UTC, _tai |-> None]

__eq__M(self, other) == self._tai = other._tai
__eq__(self, other) == TimeEq(self._time, other._time)

\* the one warning of the class: warnings.warn(text), category UserWarning,
\* issued from the line of _warn_utc_out_of_bounds whatever property was read
_warn_utc_out_of_bounds ==
    [module   |-> "ModifiedJulianDate",
     lineno   |-> 53,
     category |-> "UserWarning",
     text     |-> <<"UTC is outside of IERS table for UT1-UTC.",
                   "Returning UT1 = UTC for lack of a better idea">>]

\* Each property: the object after the read, the value returned, the
\* warnings issued.
Got(o, v, w) == [obj |-> o, ret |-> v, emitted |-> w]

TAI(self) ==
    IF self._tai = None
    THEN LET v == TimeTai(self._time)
         IN  Got([self EXCEPT !._tai = Some(v), !.ncomp.TAI = Counted(@)], v, <<>>)
    ELSE Got(self, self._tai[1], <<>>)

UTC(self) ==
    IF self._utc = None
    THEN LET v == TimeUtc(self._time)
         IN  Got([self EXCEPT !._utc = Some(v), !.ncomp.UTC = Counted(@)], v, <<>>)
    ELSE Got(self, self._utc[1], <<>>)

UT1_fallbackM(self) ==
    Got([self EXCEPT !._ut1 = Some(TimeTai(self._time)), !.ncomp.UT1 = Counted(@)],
        TimeTai(self._time), <<_warn_utc_out_of_bounds>>)
UT1_fallback(self) ==
    LET u == UTC(self)
    IN  Got([u.obj EXCEPT !._ut1 = Some(u.ret), !.ncomp.UT1 = Counted(@)],
            u.ret, <<_warn_utc_out_of_bounds>>)

UT1(self) ==
    IF self._ut1 = None
    THEN IF IersInRange(self._time)
         THEN LET v == TimeUt1(self._time)
              IN  Got([self EXCEPT !._ut1 = Some(v), !.ncomp.UT1 = Counted(@)], v, <<>>)
         ELSE UT1_fallback(self)
    ELSE Got(self, self._ut1[1], <<>>)

dut1(self) ==
    IF self._dut1 = None
    THEN IF IersInRange(self._time)
         THEN LET v == TimeDeltaUt1Utc(self._time)
              IN  Got([self EXCEPT !._dut1 = Some(v), !.ncomp.dut1 = Counted(@)], v, <<>>)
         ELSE Got([self EXCEPT !._dut1 = Some(0), !.ncomp.dut1 = Counted(@)],
                  0, <<_warn_utc_out_of_bounds>>)
    ELSE Got(self, self._dut1[1], <<>>)

TT(self) ==
    IF self._tt = None
    THEN LET v == TimeTt(self._time)
         IN  Got([self EXCEPT !._tt = Some(v), !.ncomp.TT = Counted(@)], v, <<>>)
    ELSE Got(self, self._tt[1], <<>>)

TDBM(self) ==
    IF self._tdb = None
    THEN LET v == TimeTdb(self._time)
         IN  Got([self EXCEPT !._tt = Some(v), !.ncomp.TDB = Counted(@)], v, <<>>)
    ELSE Got(self, self._tdb[1], <<>>)
TDB(self) ==
    IF self._tdb = None
    THEN LET v == TimeTdb(self._time)
         IN  Got([self EXCEPT !._tdb = Some(v), !.ncomp.TDB = Counted(@)], v, <<>>)
    ELSE Got(self, self._tdb[1], <<>>)

Property(attr, self) ==
    CASE attr = "TAI"  -> TAI(self)
      [] attr = "UTC"  -> UTC(self)
      [] attr = "UT1"  -> UT1(self)
      [] attr = "dut1" -> dut1(self)
      [] attr = "TT"   -> TT(self)
      [] attr = "TDB"  -> TDB(self)

(***************************************************************************)
(* The calls a program makes on the class.                                 *)
(***************************************************************************)
NoCall == [op |-> "none", slot |-> "", args |-> <<>>, ret |-> None,
           raised |-> None, emitted |-> <<>>, shown |-> <<>>]

\* mjd = ModifiedJulianDate(TAI=..., UTC=...), each name being bound once
ModifiedJulianDate(s, tai, utc) ==
    /\ objs[s] = None
    /\ IF init_raises(tai, utc)
       THEN /\ objs' = objs
            /\ call' = [NoCall EXCEPT !.op = "__init__", !.slot = s,
                                      !.args = <<tai, utc>>,
                                      !.raised = Some(init_error)]
       ELSE /\ objs' = [objs EXCEPT ![s] = Some(init_object(tai, utc))]
            /\ call' = [NoCall EXCEPT !.op = "__init__", !.slot = s,
                                      !.args = <<tai, utc>>]
    /\ UNCHANGED <<registry, filters>>

\* mjd.TAI, mjd.UTC, mjd.UT1, mjd.dut1, mjd.TT, mjd.TDB
Read(s, attr) ==
    /\ objs[s] # None
    /\ LET r == Property(attr, objs[s][1])
           w == warn_all(registry, filters, r.emitted)
       IN  /\ objs' = [objs EXCEPT ![s] = Some(r.obj)]
           /\ call' = [NoCall EXCEPT !.op = attr, !.slot = s, !.ret = Some(r.ret),
                                     !.emitted = r.emitted, !.shown = w.shown]
           /\ registry' = w.registry
    /\ UNCHANGED filters

\* mjd1 == mjd2
Compare(s, t) ==
    /\ objs[s] # None /\ objs[t] # None
    /\ call' = [NoCall EXCEPT !.op = "__eq__", !.slot = s, !.args = <<t>>,
                              !.ret = Some(__eq__(objs[s][1], objs[t][1]))]
    /\ UNCHANGED <<objs, registry, filters>>

\* warnings.filterwarnings('always'), and leaving the catch_warnings block
filterwarnings(action) ==
    /\ filters # action
    /\ filters' = action
    /\ UNCHANGED <<objs, call, registry>>

Init ==
    /\ objs = [s \in Slots |-> None]
    /\ call = NoCall
    /\ registry = {}
    /\ filters = "default"

\* the calls on the objects bound to the names of N
Calls(N) ==
    \/ \E s \in N, tai \in {None} \cup {Some(v) : v \in MjdInputs},
          utc \in {None} \cup {Some(v) : v \in MjdInputs} :
            ModifiedJulianDate(s, tai, utc)
    \/ \E s \in N, attr \in Attrs : Read(s, attr)
    \/ \E s \in N, t \in N : Compare(s, t)

\* a program with one ModifiedJulianDate
Next ==
    \/ Calls({"mjd1"})
    \/ \E action \in FilterActions : filterwarnings(action)

Spec == Init /\ [][Next]_vars

\* a program with two of them
NextTwo == Calls(Slots)

SpecTwo == Init /\ [][NextTwo]_vars

(***************************************************************************)
(* timeTransformations.py.  dutFromUtc and ut1FromUtc take utc in          *)
(* thousandths of a day and give UT1-UTC in hundredths of a second; an     *)
(* MJD that carries such an offset is the pair of both (the offset stays   *)
(* far below a thousandth of a day).  dttFromUtc takes utc in whole days   *)
(* and gives TT-TAI as 32.1840 s, in units of 1e-4 s, and the part added   *)
(* to it, in units of 1e-4 microsecond.                                    *)
(***************************************************************************)
\* the samples of the UT1-UTC table the tests quote, and its two ends
Ut1MinusUtcData_mjd_arr ==
    <<48622000, 48638000, 49528000, 51638000, 53933000, 57711000>>
Ut1MinusUtcData_dut_arr == <<-13, -16, -21, 27, 18, -31>>

\* the samples of the TT-TAI table the tests quote, and its two ends
TT_from_TAI_Data_mjd_arr == <<42589, 43679, 46459, 52629, 56829, 56999, 57019>>
TT_from_TAI_Data_dt_arr == <<0, 54460, 146120, 262340, 276936, 276961, 276970>>

\* numpy.interp(x, xp, fp), xp increasing
interp(x, xp, fp) ==
    IF x <= xp[1] THEN fp[1]
    ELSE IF x >= xp[Len(xp)] THEN fp[Len(fp)]
    ELSE LET i == CHOOSE j \in 1..(Len(xp) - 1) : xp[j] <= x /\ x < xp[j + 1]
         IN  fp[i] + ((x - xp[i]) * (fp[i + 1] - fp[i])) \div (xp[i + 1] - xp[i])

\* "%e" % x: x to seven significant digits
RECURSIVE FmtE(_)
FmtE(x) == IF x < 10000000 THEN x ELSE 10 * FmtE((x + 5) \div 10)

\* the warning of dutFromUtc: warnings.warn(text), category UserWarning
dut_warning(utc) ==
    [module   |-> "timeTransformations",
     lineno   |-> 64,
     category |-> "UserWarning",
     text     |-> <<"UTC = ", ToString(FmtE(utc)),
                    " is outside of the the bounds for which we have UT1-UTC data (",
                    ToString(FmtE(Ut1MinusUtcData_mjd_arr[1])), " <= utc <= ",
                    ToString(FmtE(Ut1MinusUtcData_mjd_arr[Len(Ut1MinusUtcData_mjd_arr)])),
                    ")",
                    "We will return UT1-UTC = 0, for lack of a better idea">>]

Returned(v, w) == [ret |-> v, emitted |-> w]

dutFromUtcM(utc) ==
    IF \/ utc <= Ut1MinusUtcData_mjd_arr[1]
       \/ utc >= Ut1MinusUtcData_mjd_arr[Len(Ut1MinusUtcData_mjd_arr)]
    THEN Returned(0, <<dut_warning(utc)>>)
    ELSE Returned(interp(utc, Ut1MinusUtcData_mjd_arr, Ut1MinusUtcData_dut_arr), <<>>)
dutFromUtc(utc) ==
    IF \/ utc < Ut1MinusUtcData_mjd_arr[1]
       \/ utc > Ut1MinusUtcData_mjd_arr[Len(Ut1MinusUtcData_mjd_arr)]
    THEN Returned(0, <<dut_warning(utc)>>)
    ELSE Returned(interp(utc, Ut1MinusUtcData_mjd_arr, Ut1MinusUtcData_dut_arr), <<>>)

\* utc + dt*sec_to_days
ut1FromUtc(utc) ==
    LET dt == dutFromUtc(utc)
    IN  Returned([mjd |-> utc, sec |-> dt.ret], dt.emitted)

dttFromUtcM(utc) ==
    LET dt == IF utc > 57019 THEN 0
              ELSE IF utc < 42589 THEN 276970
              ELSE interp(utc, TT_from_TAI_Data_mjd_arr, TT_from_TAI_Data_dt_arr)
    IN  Returned([sec |-> 321840, micro |-> dt], <<>>)
dttFromUtc(utc) ==
    LET dt == IF utc > 57019 THEN 276970
              ELSE IF utc < 42589 THEN 0
              ELSE interp(utc, TT_from_TAI_Data_mjd_arr, TT_from_TAI_Data_dt_arr)
    IN  Returned([sec |-> 321840, micro |-> dt], <<>>)

(***************************************************************************)
(* The calls a program makes on the functions.  The utc values asked for   *)
(* are the samples of the table, the middle of each of its intervals, and  *)
(* values up to MaxOut half days (and a thousandth of a day more) beyond   *)
(* either end; for dttFromUtc, up to MaxOut days beyond and within its     *)
(* two bounds.                                                             *)
(***************************************************************************)
MaxOut == 2

Range(f) == {f[i] : i \in DOMAIN f}
Middles(f) == {(f[i] + f[i + 1]) \div 2 : i \in 1..(Len(f) - 1)}

DutInputs ==
    LET lo == Ut1MinusUtcData_mjd_arr[1]
        hi == Ut1MinusUtcData_mjd_arr[Len(Ut1MinusUtcData_mjd_arr)]
    IN  Range(Ut1MinusUtcData_mjd_arr) \cup Middles(Ut1MinusUtcData_mjd_arr)
        \cup {lo - 500 * k + e : k \in 1..MaxOut, e \in {0, 1}}
        \cup {hi + 500 * k + e : k \in 1..MaxOut, e \in {0, 1}}

DttInputs ==
    Range(TT_from_TAI_Data_mjd_arr) \cup Middles(TT_from_TAI_Data_mjd_arr)
    \cup {42589 + k : k \in (-MaxOut)..MaxOut} \cup {57019 + k : k \in (-MaxOut)..MaxOut}

\* the record of a call of the function name that resulted in r
Called(name, utc, r) ==
    [NoCall EXCEPT !.op = name, !.args = <<utc>>, !.ret = Some(r.ret),
                   !.emitted = r.emitted,
                   !.shown = warn_all(registry, filters, r.emitted).shown]

Call_dutFromUtc(utc) ==
    /\ call' = Called("dutFromUtc", utc, dutFromUtc(utc))
    /\ registry' = warn_all(registry, filters, dutFromUtc(utc).emitted).registry
    /\ UNCHANGED <<objs, filters>>

Call_ut1FromUtc(utc) ==
    /\ call' = Called("ut1FromUtc", utc, ut1FromUtc(utc))
    /\ registry' = warn_all(registry, filters, ut1FromUtc(utc).emitted).registry
    /\ UNCHANGED <<objs, filters>>

Call_dttFromUtc(utc) ==
    /\ call' = Called("dttFromUtc", utc, dttFromUtc(utc))
    /\ registry' = warn_all(registry, filters, dttFromUtc(utc).emitted).registry
    /\ UNCHANGED <<objs, filters>>

NextTime ==
    \/ \E utc \in DutInputs : Call_dutFromUtc(utc)
    \/ \E utc \in DutInputs : Call_ut1FromUtc(utc)
    \/ \E utc \in DttInputs : Call_dttFromUtc(utc)
    \/ \E action \in FilterActions : filterwarnings(action)

SpecTime == Init /\ [][NextTime]_vars

(***************************************************************************)
(* taiFromUtc and utcFromTai.  Times are in units of 1e-4 s and counted    *)
(* from the leap second boundary of 1 July 2012 (MJD 56109.0), where       *)
(* TAI-UTC steps from 34 s to 35 s.                                        *)
(***************************************************************************)
\* one second, and 1.0e-6 day, in these units
Second == 10000
MicroDay == 864

\* palpy.dat: TAI-UTC in seconds
palpy_dat(utc) == IF utc < 0 THEN 34 ELSE 35

\* utc + dt/86400.0
taiFromUtc(utc) == utc + palpy_dat(utc) * Second

\* numpy.arange(start, stop, step)
arange(start, stop, step) ==
    [k \in 1..((stop - start + step - 1) \div step) |-> start + (k - 1) * step]

utcFromTai(tai) ==
    LET dt_approx == palpy_dat(tai) * Second
        utc_arr   == arange(tai - dt_approx, tai + dt_approx, MicroDay)
        tai_arr   == [k \in DOMAIN utc_arr |-> taiFromUtc(utc_arr[k])]
    IN  interp(tai, tai_arr, utc_arr)

(***************************************************************************)
(* utcFromUt1.  A time is a sample of the UT1-UTC table (base, in          *)
(* thousandths of a day) and what is to be added to it, in hundredths of a *)
(* second; the functions take and give the second part.                    *)
(***************************************************************************)
\* a thousandth of a day, in hundredths of a second
MilliDay == 8640

\* numpy.interp(x, xp, fp), xp increasing: the value of interp, its line
\* fp[i] + (x - xp[i]) * slope written with the slope as 1 + (slope - 1)
interp_near(x, xp, fp) ==
    IF x <= xp[1] THEN fp[1]
    ELSE IF x >= xp[Len(xp)] THEN fp[Len(fp)]
    ELSE LET i  == CHOOSE j \in 1..(Len(xp) - 1) : xp[j] <= x /\ x < xp[j + 1]
             dx == xp[i + 1] - xp[i]
             df == fp[i + 1] - fp[i]
         IN  fp[i] + (x - xp[i]) + ((x - xp[i]) * (df - dx)) \div dx

\* dutFromUtc at base + utc: the table is asked at the thousandth of a day
\* below the time, or above it past the last sample, so that a time outside
\* the table is outside it
dutFromUtcAt(base, utc) ==
    LET down == base + utc \div MilliDay
        last == Ut1MinusUtcData_mjd_arr[Len(Ut1MinusUtcData_mjd_arr)]
    IN  dutFromUtc(IF utc % MilliDay # 0 /\ down >= last THEN down + 1 ELSE down)

\* utc + dt*sec_to_days
ut1FromUtcAt(base, utc) ==
    LET dt == dutFromUtcAt(base, utc)
    IN  Returned(utc + dt.ret, dt.emitted)

RECURSIVE emitted_by(_)
emitted_by(rs) ==
    IF rs = <<>> THEN <<>> ELSE rs[1].emitted \o emitted_by(Tail(rs))

utcFromUt1(base, ut1) ==
    LET utc_arr == arange(ut1 - 1000 * MilliDay, ut1 + 1000 * MilliDay, 250 * MilliDay)
        ut1s    == [k \in DOMAIN utc_arr |-> ut1FromUtcAt(base, utc_arr[k])]
        ut1_arr == [k \in DOMAIN utc_arr |-> ut1s[k].ret]
    IN  Returned(interp_near(ut1, ut1_arr, utc_arr), emitted_by(ut1s))

(***************************************************************************)
(* The calls a program makes on the inverses: utc up to MaxNear times      *)
(* 1e-6 day either side of the leap second boundary, in steps of an eighth *)
(* of that, and up to 7 * MaxNear seconds either side of it; utc inside    *)
(* the UT1-UTC table up to four quarters of a day, and up to MaxSlip times *)
(* 0.05 s, from the first, the fourth and the last sample of the table.    *)
(***************************************************************************)
MaxNear == 10
MaxSlip == 3

UtcNearLeap ==
    {k * (MicroDay \div 8) : k \in (-8 * MaxNear)..(8 * MaxNear)}
    \cup {k * 7 * Second : k \in (-MaxNear)..MaxNear}

InDutTable(base, utc) == dutFromUtcAt(base, utc).emitted = <<>>

UtcNearSample ==
    {bu \in {Ut1MinusUtcData_mjd_arr[i] : i \in {1, 4, Len(Ut1MinusUtcData_mjd_arr)}}
              \X ({k * 250 * MilliDay : k \in (-4)..4}
                  \cup {k * 5 : k \in (-MaxSlip)..MaxSlip}) :
        InDutTable(bu[1], bu[2])}

Call_taiFromUtc(utc) ==
    /\ call' = [NoCall EXCEPT !.op = "taiFromUtc", !.args = <<utc>>,
                              !.ret = Some(taiFromUtc(utc))]
    /\ UNCHANGED <<objs, registry, filters>>

Call_utcFromTai(tai) ==
    /\ call' = [NoCall EXCEPT !.op = "utcFromTai", !.args = <<tai>>,
                              !.ret = Some(utcFromTai(tai))]
    /\ UNCHANGED <<objs, registry, filters>>

Call_ut1FromUtcAt(base, utc) ==
    /\ call' = [Called("ut1FromUtc", utc, ut1FromUtcAt(base, utc))
                    EXCEPT !.args = <<base, utc>>]
    /\ registry' = warn_all(registry, filters, ut1FromUtcAt(base, utc).emitted).registry
    /\ UNCHANGED <<objs, filters>>

Call_utcFromUt1(base, ut1) ==
    /\ call' = [Called("utcFromUt1", ut1, utcFromUt1(base, ut1))
                    EXCEPT !.args = <<base, ut1>>]
    /\ registry' = warn_all(registry, filters, utcFromUt1(base, ut1).emitted).registry
    /\ UNCHANGED <<objs, filters>>

\* a program that converts between UTC and TAI
NextLeap ==
    \/ \E utc \in UtcNearLeap : Call_taiFromUtc(utc)
    \/ \E utc \in UtcNearLeap : Call_utcFromTai(taiFromUtc(utc))

SpecLeap == Init /\ [][NextLeap]_vars

\* a program that converts between UTC and UT1
NextUt1 ==
    \/ \E bu \in UtcNearSample : Call_ut1FromUtcAt(bu[1], bu[2])
    \/ \E bu \in UtcNearSample :
          Call_utcFromUt1(bu[1], ut1FromUtcAt(bu[1], bu[2]).ret)

SpecUt1 == Init /\ [][NextUt1]_vars

(***************************************************************************)
(* coordinateTransformations.py.  An argument or a result is a single      *)
(* value or a numpy array of values.  Radians are counted in units of      *)
(* pi/12, degrees in degrees, hours in hours, and an MJD in hours (24 to   *)
(* the day).                                                               *)
(***************************************************************************)
scalar(v) == [val |-> <<v>>, ndarray |-> FALSE]
item(x) == x.val[1]
ndarray(s) == [val |-> s, ndarray |-> TRUE]
isinstance_ndarray(x) == x.ndarray
len(x) == Len(x.val)

\* a numpy function of one argument, and one of two arguments: applied to
\* the single value, or element by element, a single value going with
\* every element of an array
each(F(_), a) ==
    IF a.ndarray THEN ndarray([i \in DOMAIN a.val |-> F(a.val[i])])
    ELSE scalar(F(item(a)))
each2(F(_, _), a, b) ==
    IF a.ndarray /\ b.ndarray
    THEN ndarray([i \in DOMAIN a.val |-> F(a.val[i], b.val[i])])
    ELSE IF a.ndarray THEN ndarray([i \in DOMAIN a.val |-> F(a.val[i], item(b))])
    ELSE IF b.ndarray THEN ndarray([i \in DOMAIN b.val |-> F(item(a), b.val[i])])
    ELSE scalar(F(item(a), item(b)))

TwoPi == 24
numpy_degrees(x) == 15 * x
numpy_radians(x) == x \div 15

\* palpy.gmsta and palpy.eqeqx, in radians: the sidereal time of the model
\* gains an hour a day on UT1, and the equation of equinoxes is an hour
\* either way
palpy_gmsta(date, ut1) == (date \div 24 + ut1) % TwoPi
palpy_eqeqx(d) == IF (d \div 24) % 2 = 0 THEN 1 ELSE -1

RuntimeError(msg) == [type |-> "RuntimeError", msg |-> msg]
\* how a call ends, and the routines of palpy and the services it has called
Raises(e, called) == [ret |-> None, raised |-> Some(e), called |-> called]
Returns(v, called) == [ret |-> Some(v), raised |-> None, called |-> called]

equationOfEquinoxes(d) ==
    Returns(each(palpy_eqeqx, d),
            IF isinstance_ndarray(d) THEN <<"eqeqxVector">> ELSE <<"eqeqx">>)

\* numpy.floor of an MJD: the whole day, in hours
numpy_floor(m) == m - (m % 24)

calcGmstGastM(mjd) ==
    LET date  == each(numpy_floor, mjd)
        ut1   == each2(LAMBDA m, d : m - d, mjd, date)
        gmst0 == each2(palpy_gmsta, date, ut1)
        eqeq  == equationOfEquinoxes(mjd)
        gast0 == each2(LAMBDA g, e : g + e, gmst0, eqeq.ret[1])
        gmst  == each(LAMBDA g : ((g * 24) \div TwoPi) % 24, gmst0)
        gast  == each(LAMBDA g : (g * 24) \div TwoPi, gast0)
    IN  Returns(<<gmst, gast>>,
                (IF isinstance_ndarray(mjd) THEN <<"gmstaVector">> ELSE <<"gmsta">>)
                    \o eqeq.called)
calcGmstGast(mjd) ==
    LET date  == each(numpy_floor, mjd)
        ut1   == each2(LAMBDA m, d : m - d, mjd, date)
        gmst0 == each2(palpy_gmsta, date, ut1)
        eqeq  == equationOfEquinoxes(mjd)
        gast0 == each2(LAMBDA g, e : g + e, gmst0, eqeq.ret[1])
        gmst  == each(LAMBDA g : ((g * 24) \div TwoPi) % 24, gmst0)
        gast  == each(LAMBDA g : ((g * 24) \div TwoPi) % 24, gast0)
    IN  Returns(<<gmst, gast>>,
                (IF isinstance_ndarray(mjd) THEN <<"gmstaVector">> ELSE <<"gmsta">>)
                    \o eqeq.called)

\* the longitude of calcLmstLast in degrees, a turn taken off above 180
calcLmstLast_longDegM(longRad) ==
    LET longDeg0 == numpy_degrees(longRad) % 360
    IN  IF longDeg0 >= 180 THEN longDeg0 - 360 ELSE longDeg0
calcLmstLast_longDeg(longRad) ==
    LET longDeg0 == numpy_degrees(longRad) % 360
    IN  IF longDeg0 > 180 THEN longDeg0 - 360 ELSE longDeg0

calcLmstLastM(mjd, longRad) ==
    LET mjdIsArray     == isinstance_ndarray(mjd)
        longRadIsArray == isinstance_ndarray(longRad)
    IN  IF longRadIsArray /\ mjdIsArray /\ len(longRad) # len(mjd)
        THEN Raises(RuntimeError(<<"in calcLmstLast ", "mjd", " and ", "longRad",
                                   " have different lengths">>), <<>>)
        ELSE LET longDeg  == each(calcLmstLast_longDeg, longRad)
                 hrs      == each(LAMBDA d : d \div 15, longDeg)
                 gmstgast == calcGmstGast(mjd)
                 lmst     == each2(LAMBDA g, h : (g + h) % 24, gmstgast.ret[1][1], hrs)
                 last     == each2(LAMBDA g, h : (g + h) % 24, gmstgast.ret[1][2], hrs)
             IN  Returns(<<lmst, last>>, gmstgast.called)
calcLmstLast(mjd, longRad) ==
    LET mjdIsArray     == isinstance_ndarray(mjd)
        longRadIsArray == isinstance_ndarray(longRad)
    IN  IF longRadIsArray /\ mjdIsArray /\ len(longRad) # len(mjd)
        THEN Raises(RuntimeError(<<"in calcLmstLast ", "mjd", " and ", "longRad",
                                   " have different lengths">>), <<>>)
        ELSE IF longRadIsArray /\ ~mjdIsArray
        THEN Raises(RuntimeError(<<"in calcLmstLast ", "longRad",
                                   " is numpy array but ", "mjd", " is not">>), <<>>)
        ELSE LET longDeg  == each(calcLmstLast_longDeg, longRad)
                 hrs      == each(LAMBDA d : d \div 15, longDeg)
                 gmstgast == calcGmstGast(mjd)
                 lmst     == each2(LAMBDA g, h : (g + h) % 24, gmstgast.ret[1][1], hrs)
                 last     == each2(LAMBDA g, h : (g + h) % 24, gmstgast.ret[1][2], hrs)
             IN  Returns(<<lmst, last>>, gmstgast.called)

\* palpy.altaz: azimuth, elevation and parallactic angle of an hour angle
\* and declination seen from a latitude; azimuth and elevation are kept as
\* what they are computed from, the parallactic angle is an angle of
\* [-pi, pi) that depends on all three
palpy_altaz(ha, dec, phi) ==
    [az  |-> <<"az", ha, dec, phi>>,
     alt |-> <<"alt", ha, dec, phi>>,
     pa  |-> ((ha + 5 * dec + 7 * phi + 12) % TwoPi) - 12]

\* raDecToAltAzPa once its arguments are accepted, of the lmst and last
\* that calcLmstLast has returned: the hour angle, and palpy.altaz
altAzPa_of(lst, raRad, decRad, latRad) ==
    IF lst.raised # None THEN lst
    ELSE LET last  == lst.ret[1][2]
             haRad == each2(LAMBDA l, r : numpy_radians(l * 15) - r, last, raRad)
             aap   == each2(LAMBDA h, d : palpy_altaz(h, d, item(latRad)),
                            haRad, decRad)
         IN  Returns(<<each(LAMBDA a : a.alt, aap),
                       each(LAMBDA a : a.az, aap),
                       each(LAMBDA a : a.pa, aap)>>,
                     lst.called \o (IF isinstance_ndarray(haRad)
                                   THEN <<"altazVector">>
                                   ELSE <<"altaz">>))

raDecToAltAzPaM(raRad, decRad, longRad, latRad, mjd) ==
    LET raIsArray  == isinstance_ndarray(raRad)
        decIsArray == isinstance_ndarray(decRad)
        mjdIsArray == isinstance_ndarray(mjd)
    IN  IF isinstance_ndarray(longRad)
        THEN Raises(RuntimeError(<<"cannot pass numpy array of ", "longitudes",
                                   " to ", "raDecToAltAzPa">>), <<>>)
        ELSE IF isinstance_ndarray(latRad)
        THEN Raises(RuntimeError(<<"cannot pass numpy array of ", "latitudes",
                                   " to ", "raDecToAltAzPa">>), <<>>)
        ELSE IF raIsArray /\ ~decIsArray
        THEN Raises(RuntimeError(<<"passed numpy array of ", "RA", " to ",
                                   "raDecToAltAzPa", "; but only one ", "Dec">>), <<>>)
        ELSE IF decIsArray /\ ~raIsArray
        THEN Raises(RuntimeError(<<"passed numpy array of ", "Dec", " to ",
                                   "raDecToAltAzPa", "; but only one ", "RA">>), <<>>)
        ELSE IF raIsArray /\ decIsArray /\ len(raRad) # len(decRad)
        THEN Raises(RuntimeError(<<"in ", "raDecToAltAzPa", " length of ", "RA",
                                   " numpy array does not match length of ", "Dec",
                                   " numpy array">>), <<>>)
        ELSE IF mjdIsArray /\ ~raIsArray
        THEN Raises(RuntimeError(<<"passed numpy array of ", "mjd", " to ",
                                   "raDecToAltAzPa", "; but only one ", "RA", ", ",
                                   "Dec">>), <<>>)
        ELSE altAzPa_of(calcLmstLast(IF mjdIsArray /\ len(mjd) > len(raRad)
                                     THEN ndarray(SubSeq(mjd.val, 1, len(raRad)))
                                     ELSE mjd, longRad),
                        raRad, decRad, latRad)
raDecToAltAzPa(raRad, decRad, longRad, latRad, mjd) ==
    LET raIsArray  == isinstance_ndarray(raRad)
        decIsArray == isinstance_ndarray(decRad)
        mjdIsArray == isinstance_ndarray(mjd)
    IN  IF isinstance_ndarray(longRad)
        THEN Raises(RuntimeError(<<"cannot pass numpy array of ", "longitudes",
                                   " to ", "raDecToAltAzPa">>), <<>>)
        ELSE IF isinstance_ndarray(latRad)
        THEN Raises(RuntimeError(<<"cannot pass numpy array of ", "latitudes",
                                   " to ", "raDecToAltAzPa">>), <<>>)
        ELSE IF raIsArray /\ ~decIsArray
        THEN Raises(RuntimeError(<<"passed numpy array of ", "RA", " to ",
                                   "raDecToAltAzPa", "; but only one ", "Dec">>), <<>>)
        ELSE IF decIsArray /\ ~raIsArray
        THEN Raises(RuntimeError(<<"passed numpy array of ", "Dec", " to ",
                                   "raDecToAltAzPa", "; but only one ", "RA">>), <<>>)
        ELSE IF raIsArray /\ decIsArray /\ len(raRad) # len(decRad)
        THEN Raises(RuntimeError(<<"in ", "raDecToAltAzPa", " length of ", "RA",
                                   " numpy array does not match length of ", "Dec",
                                   " numpy array">>), <<>>)
        ELSE IF mjdIsArray /\ ~raIsArray
        THEN Raises(RuntimeError(<<"passed numpy array of ", "mjd", " to ",
                                   "raDecToAltAzPa", "; but only one ", "RA", ", ",
                                   "Dec">>), <<>>)
        ELSE IF mjdIsArray /\ len(mjd) # len(raRad)
        THEN Raises(RuntimeError(<<"in ", "raDecToAltAzPa", " length of ", "mjd",
                                   " numpy array is not the same as length of ", "RA",
                                   " numpy array">>), <<>>)
        ELSE altAzPa_of(calcLmstLast(mjd, longRad), raRad, decRad, latRad)

\* the sign of numpy.sin: zero at the multiples of pi
numpy_sin_sign(x) ==
    LET t == x % TwoPi
    IN  IF t = 0 \/ t = 12 THEN 0 ELSE IF t < 12 THEN 1 ELSE -1

\* the declination and the hour angle of altAzToRaDec: numpy.arcsin gives
\* an angle of [-pi/2, pi/2] and numpy.arccos one of [0, pi], each depending
\* on elevation, azimuth and latitude; numpy.where then gives the hour
\* angle the sign opposite to that of the sine of the azimuth
altAzToRaDec_decRad(altRad, azRad, latRad) ==
    ((altRad + 2 * azRad + 3 * latRad) % 13) - 6
altAzToRaDec_haRad0(altRad, azRad, latRad) ==
    (altRad + 3 * azRad + 5 * latRad) % 13
altAzToRaDec_haRadM(altRad, azRad, latRad) ==
    LET haRad0 == altAzToRaDec_haRad0(altRad, azRad, latRad)
    IN  IF numpy_sin_sign(azRad) > 0 THEN -1 * haRad0 ELSE haRad0
altAzToRaDec_haRad(altRad, azRad, latRad) ==
    LET haRad0 == altAzToRaDec_haRad0(altRad, azRad, latRad)
    IN  IF numpy_sin_sign(azRad) >= 0 THEN -1 * haRad0 ELSE haRad0

\* altAzToRaDec once its arguments are accepted, of the lmst and last that
\* calcLmstLast has returned
raDec_of(lst, altRad, azRad, latRad) ==
    IF lst.raised # None THEN lst
    ELSE LET last   == lst.ret[1][2]
             decRad == each2(LAMBDA a, z : altAzToRaDec_decRad(a, z, item(latRad)),
                             altRad, azRad)
             haRad  == each2(LAMBDA a, z : altAzToRaDec_haRad(a, z, item(latRad)),
                             altRad, azRad)
             raRad  == each2(LAMBDA l, h : numpy_radians(l * 15) - h, last, haRad)
         IN  Returns(<<raRad, decRad>>, lst.called)

altAzToRaDecM(altRad, azRad, longRad, latRad, mjd) ==
    LET mjdIsArray == isinstance_ndarray(mjd)
        altIsArray == isinstance_ndarray(altRad)
        azIsArray  == isinstance_ndarray(azRad)
    IN  IF isinstance_ndarray(longRad)
        THEN Raises(RuntimeError(<<"cannot pass a numpy array of ", "longitudes",
                                   " to ", "altAzToRaDec">>), <<>>)
        ELSE IF altIsArray /\ ~azIsArray
        THEN Raises(RuntimeError(<<"passed a numpy array of ", "alt", " to ",
                                   "altAzToRaDec", ", but only one ", "az">>), <<>>)
        ELSE IF azIsArray /\ ~altIsArray
        THEN Raises(RuntimeError(<<"passed a numpy array of ", "az", " to ",
                                   "altAzToRaDec", ", but only one ", "alt">>), <<>>)
        ELSE IF azIsArray /\ altIsArray /\ len(altRad) # len(azRad)
        THEN Raises(RuntimeError(<<"in ", "altAzToRaDec", ", length of ", "alt",
                                   " numpy array does not match length of ", "az",
                                   " numpy array">>), <<>>)
        ELSE IF mjdIsArray /\ ~azIsArray
        THEN Raises(RuntimeError(<<"passed a numpy array of ", "mjd", " to ",
                                   "altAzToRaDec", ", but only one ", "alt", ", ",
                                   "az", " pair">>), <<>>)
        ELSE IF mjdIsArray /\ len(mjd) # len(azRad)
        THEN Raises(RuntimeError(<<"in ", "altAzToRaDec", " length of ", "mjd",
                                   " numpy array does not match length of ", "az",
                                   " numpy array">>), <<>>)
        ELSE raDec_of(calcLmstLast(mjd, longRad), altRad, azRad, latRad)
altAzToRaDec(altRad, azRad, longRad, latRad, mjd) ==
    LET mjdIsArray == isinstance_ndarray(mjd)
        altIsArray == isinstance_ndarray(altRad)
        azIsArray  == isinstance_ndarray(azRad)
    IN  IF isinstance_ndarray(longRad)
        THEN Raises(RuntimeError(<<"cannot pass a numpy array of ", "longitudes",
                                   " to ", "altAzToRaDec">>), <<>>)
        ELSE IF isinstance_ndarray(latRad)
        THEN Raises(RuntimeError(<<"cannot pass a numpy array of ", "latitudes",
                                   " to ", "altAzToRaDec">>), <<>>)
        ELSE IF altIsArray /\ ~azIsArray
        THEN Raises(RuntimeError(<<"passed a numpy array of ", "alt", " to ",
                                   "altAzToRaDec", ", but only one ", "az">>), <<>>)
        ELSE IF azIsArray /\ ~altIsArray
        THEN Raises(RuntimeError(<<"passed a numpy array of ", "az", " to ",
                                   "altAzToRaDec", ", but only one ", "alt">>), <<>>)
        ELSE IF azIsArray /\ altIsArray /\ len(altRad) # len(azRad)
        THEN Raises(RuntimeError(<<"in ", "altAzToRaDec", ", length of ", "alt",
                                   " numpy array does not match length of ", "az",
                                   " numpy array">>), <<>>)
        ELSE IF mjdIsArray /\ ~azIsArray
        THEN Raises(RuntimeError(<<"passed a numpy array of ", "mjd", " to ",
                                   "altAzToRaDec", ", but only one ", "alt", ", ",
                                   "az", " pair">>), <<>>)
        ELSE IF mjdIsArray /\ len(mjd) # len(azRad)
        THEN Raises(RuntimeError(<<"in ", "altAzToRaDec", " length of ", "mjd",
                                   " numpy array does not match length of ", "az",
                                   " numpy array">>), <<>>)
        ELSE raDec_of(calcLmstLast(mjd, longRad), altRad, azRad, latRad)

(***************************************************************************)
(* The calls a program makes on calcLmstLast, raDecToAltAzPa and           *)
(* altAzToRaDec: every argument a single value or an array of up to MaxLen *)
(* values (longitude and latitude of the two transformations: of one).     *)
(***************************************************************************)
MaxLen == 2

\* an argument of n values after v, or the single value v
arg(v, n) == IF n = 0 THEN scalar(v) ELSE ndarray([i \in 1..n |-> v + i])

MjdArgs == {arg(v, n) : v \in {-49, -23, 0, 23, 47}, n \in 0..MaxLen}
LongArgs == {arg(v, n) : v \in {-37, -13, -1, 5, 11, 12, 17, 35}, n \in 0..MaxLen}
SkyArgs(v) == {arg(v, n) : n \in 0..MaxLen}
SiteArgs(v) == {arg(v, n) : n \in 0..1}

\* the record of a call of the function name that ended as r
Ended(name, args, r) ==
    [op |-> name, slot |-> "", args |-> args, ret |-> r.ret, raised |-> r.raised,
     emitted |-> <<>>, shown |-> <<>>, called |-> r.called]

Call_calcGmstGast(mjd) ==
    /\ call' = Ended("calcGmstGast", <<mjd>>, calcGmstGast(mjd))
    /\ UNCHANGED <<objs, registry, filters>>

Call_calcLmstLast(mjd, longRad) ==
    /\ call' = Ended("calcLmstLast", <<mjd, longRad>>, calcLmstLast(mjd, longRad))
    /\ UNCHANGED <<objs, registry, filters>>

Call_raDecToAltAzPa(raRad, decRad, longRad, latRad, mjd) ==
    /\ call' = Ended("raDecToAltAzPa", <<raRad, decRad, longRad, latRad, mjd>>,
                     raDecToAltAzPa(raRad, decRad, longRad, latRad, mjd))
    /\ UNCHANGED <<objs, registry, filters>>

Call_altAzToRaDec(altRad, azRad, longRad, latRad, mjd) ==
    /\ call' = Ended("altAzToRaDec", <<altRad, azRad, longRad, latRad, mjd>>,
                     altAzToRaDec(altRad, azRad, longRad, latRad, mjd))
    /\ UNCHANGED <<objs, registry, filters>>

\* a program that asks for sidereal times
NextSidereal ==
    \/ \E mjd \in MjdArgs : Call_calcGmstGast(mjd)
    \/ \E mjd \in MjdArgs, longRad \in LongArgs : Call_calcLmstLast(mjd, longRad)

SpecSidereal == Init /\ [][NextSidereal]_vars

\* a program that transforms between the equatorial and the horizon system
NextHorizon ==
    \/ \E raRad \in SkyArgs(2), decRad \in SkyArgs(-3), longRad \in SiteArgs(-5),
          latRad \in SiteArgs(-2), mjd \in SkyArgs(47) :
            Call_raDecToAltAzPa(raRad, decRad, longRad, latRad, mjd)
    \/ \E altRad \in SkyArgs(3), azRad \in SkyArgs(11) \cup SkyArgs(-1),
          longRad \in SiteArgs(-5),
          latRad \in SiteArgs(-2), mjd \in SkyArgs(47) :
            Call_altAzToRaDec(altRad, azRad, longRad, latRad, mjd)

SpecHorizon == Init /\ [][NextHorizon]_vars

(***************************************************************************)
(* FocalPlaneUtils.py.  Sky and pupil coordinates are whole numbers of a   *)
(* small unit of angle, or NaN; an angle that is rotated by is kept as its *)
(* direction <<c, s>> on the circle of radius Radius, its cosine c/Radius  *)
(* and its sine s/Radius.                                                  *)
(***************************************************************************)
Radius == 5
Angles == {a \in ((-Radius)..Radius) \X ((-Radius)..Radius) :
               a[1] * a[1] + a[2] * a[2] = Radius * Radius}

NaN == <<>>
float(v) == <<v>>
\* x*np.cos(theta), x*np.sin(theta), x - y, x + y and -1.0*x on floats
times_cos(x, theta) == IF x = NaN THEN NaN ELSE float((x[1] * theta[1]) \div Radius)
times_sin(x, theta) == IF x = NaN THEN NaN ELSE float((x[1] * theta[2]) \div Radius)
minus(x, y) == IF x = NaN \/ y = NaN THEN NaN ELSE float(x[1] - y[1])
plus(x, y) == IF x = NaN \/ y = NaN THEN NaN ELSE float(x[1] + y[1])
negative(x) == IF x = NaN THEN NaN ELSE float(-x[1])

\* an ObservationMetaData: pointingRA, pointingDec, rotSkyPos and mjd, each
\* None or a value
ObservationMetaData(pointingRA, pointingDec, rotSkyPos, mjd) ==
    [pointingRA |-> pointingRA, pointingDec |-> pointingDec,
     rotSkyPos |-> rotSkyPos, mjd |-> mjd]

\* CodeUtilities._validate_inputs: whether the two inputs are arrays; they
\* are to be both single values, or both arrays of one length
_validate_inputs(input_list, method_name) ==
    LET a == input_list[1]
        b == input_list[2]
    IN  IF a.ndarray # b.ndarray
        THEN Raises(RuntimeError(<<"The input arguments to ", method_name,
                                   " should be of the same type">>), <<>>)
        ELSE IF a.ndarray /\ len(a) # len(b)
        THEN Raises(RuntimeError(<<"The arrays input to ", method_name,
                                   " all need to have the same length">>), <<>>)
        ELSE Returns(a.ndarray, <<>>)

\* the observed-frame service and its inverse: the apparent place is the
\* mean place moved with the date
_observedFromICRS(ra, dec, obs_metadata, epoch) ==
    <<plus(ra, float(25 * obs_metadata.mjd[1])),
      minus(dec, float(25 * (obs_metadata.mjd[1] + epoch[1] - 2000)))>>
_icrsFromObserved(ra, dec, obs_metadata, epoch) ==
    <<minus(ra, float(25 * obs_metadata.mjd[1])),
      plus(dec, float(25 * (obs_metadata.mjd[1] + epoch[1] - 2000)))>>

\* palpy.ds2tp and palpy.dtp2s: the projection onto the plane tangent at
\* (raz, decz), which fails for a place more than FieldOfView from it, and
\* its inverse
FieldOfView == 100
ds2tp_fails(ra, dec, raz, decz) ==
    \/ ra = NaN \/ dec = NaN
    \/ ra[1] - raz[1] > FieldOfView \/ raz[1] - ra[1] > FieldOfView
    \/ dec[1] - decz[1] > FieldOfView \/ decz[1] - dec[1] > FieldOfView
palpy_ds2tp(ra, dec, raz, decz) == <<minus(ra, raz), minus(dec, decz)>>
palpy_dtp2s(xi, eta, raz, decz) == <<plus(xi, raz), plus(eta, decz)>>

\* _pupilCoordsFromRaDec; vector_raises: the ds2tpVector of the palpy that
\* is installed raises when the projection of an element fails (otherwise
\* it gives NaN for the element)
_pupilCoordsFromRaDecM(ra_in, dec_in, obs_metadata, epoch, vector_raises) ==
    LET are_arrays == _validate_inputs(<<ra_in, dec_in>>, "pupilCoordsFromRaDec")
    IN  IF are_arrays.raised # None THEN are_arrays
        ELSE IF obs_metadata = None
        THEN Raises(RuntimeError(<<"Cannot call pupilCoordsFromRaDec without ",
                                   "obs_metadata">>), <<>>)
        ELSE IF obs_metadata[1].mjd = None
        THEN Raises(RuntimeError(<<"Cannot call pupilCoordsFromRaDec; obs_metadata.",
                                   "mjd", " is None">>), <<>>)
        ELSE IF epoch = None
        THEN Raises(RuntimeError(<<"Cannot call pupilCoordsFromRaDec; ", "epoch",
                                   " is None">>), <<>>)
        ELSE IF obs_metadata[1].rotSkyPos = None
        THEN Raises(RuntimeError(<<"Cannot calculate [x,y]_focal_nominal without obs_metadata.",
                                   "rotSkyPos">>), <<>>)
        ELSE IF obs_metadata[1].pointingRA = None \/ obs_metadata[1].pointingDec = None
        THEN Raises(RuntimeError(<<"Cannot calculate [x,y]_focal_nominal without ",
                                   "pointingRA", " and ", "Dec", " in obs_metadata">>),
                    <<>>)
        ELSE LET md       == obs_metadata[1]
                 theta    == md.rotSkyPos[1]
                 obs      == each2(LAMBDA r, d : _observedFromICRS(r, d, md, epoch),
                                   ra_in, dec_in)
                 pointing == _observedFromICRS(md.pointingRA, md.pointingDec, md, epoch)
                 failing  == \E i \in DOMAIN obs.val :
                                 ds2tp_fails(obs.val[i][1], obs.val[i][2],
                                             pointing[1], pointing[2])
                 \* the try of the projection, and its except
                 xy == each(LAMBDA o :
                                IF failing
                                THEN <<NaN, NaN>>
                                ELSE palpy_ds2tp(o[1], o[2], pointing[1], pointing[2]),
                            obs)
                 x     == each(LAMBDA p : negative(p[1]), xy)
                 y     == each(LAMBDA p : p[2], xy)
                 x_out == each2(LAMBDA u, v : minus(times_cos(u, theta),
                                                    times_sin(v, theta)), x, y)
                 y_out == each2(LAMBDA u, v : plus(times_sin(u, theta),
                                                   times_cos(v, theta)), x, y)
             IN  Returns(<<x_out, y_out>>,
                         <<"_observedFromICRS", "_observedFromICRS">>
                         \o (IF ~are_arrays.ret[1] THEN <<"ds2tp">>
                             ELSE IF failing /\ vector_raises
                             THEN <<"ds2tpVector">> \o [i \in DOMAIN obs.val |-> "ds2tp"]
                             ELSE <<"ds2tpVector">>))
_pupilCoordsFromRaDec(ra_in, dec_in, obs_metadata, epoch, vector_raises) ==
    LET are_arrays == _validate_inputs(<<ra_in, dec_in>>, "pupilCoordsFromRaDec")
    IN  IF are_arrays.raised # None THEN are_arrays
        ELSE IF obs_metadata = None
        THEN Raises(RuntimeError(<<"Cannot call pupilCoordsFromRaDec without ",
                                   "obs_metadata">>), <<>>)
        ELSE IF obs_metadata[1].mjd = None
        THEN Raises(RuntimeError(<<"Cannot call pupilCoordsFromRaDec; obs_metadata.",
                                   "mjd", " is None">>), <<>>)
        ELSE IF epoch = None
        THEN Raises(RuntimeError(<<"Cannot call pupilCoordsFromRaDec; ", "epoch",
                                   " is None">>), <<>>)
        ELSE IF obs_metadata[1].rotSkyPos = None
        THEN Raises(RuntimeError(<<"Cannot calculate [x,y]_focal_nominal without obs_metadata.",
                                   "rotSkyPos">>), <<>>)
        ELSE IF obs_metadata[1].pointingRA = None \/ obs_metadata[1].pointingDec = None
        THEN Raises(RuntimeError(<<"Cannot calculate [x,y]_focal_nominal without ",
                                   "pointingRA", " and ", "Dec", " in obs_metadata">>),
                    <<>>)
        ELSE LET md       == obs_metadata[1]
                 theta    == md.rotSkyPos[1]
                 obs      == each2(LAMBDA r, d : _observedFromICRS(r, d, md, epoch),
                                   ra_in, dec_in)
                 pointing == _observedFromICRS(md.pointingRA, md.pointingDec, md, epoch)
                 failing  == \E i \in DOMAIN obs.val :
                                 ds2tp_fails(obs.val[i][1], obs.val[i][2],
                                             pointing[1], pointing[2])
                 \* the try of the projection, and its except
                 xy == each(LAMBDA o :
                                IF ds2tp_fails(o[1], o[2], pointing[1], pointing[2])
                                THEN <<NaN, NaN>>
                                ELSE palpy_ds2tp(o[1], o[2], pointing[1], pointing[2]),
                            obs)
                 x     == each(LAMBDA p : negative(p[1]), xy)
                 y     == each(LAMBDA p : p[2], xy)
                 x_out == each2(LAMBDA u, v : minus(times_cos(u, theta),
                                                    times_sin(v, theta)), x, y)
                 y_out == each2(LAMBDA u, v : plus(times_sin(u, theta),
                                                   times_cos(v, theta)), x, y)
             IN  Returns(<<x_out, y_out>>,
                         <<"_observedFromICRS", "_observedFromICRS">>
                         \o (IF ~are_arrays.ret[1] THEN <<"ds2tp">>
                             ELSE IF failing /\ vector_raises
                             THEN <<"ds2tpVector">> \o [i \in DOMAIN obs.val |-> "ds2tp"]
                             ELSE <<"ds2tpVector">>))

_raDecFromPupilCoordsM(xPupil, yPupil, obs_metadata, epoch) ==
    LET are_arrays == _validate_inputs(<<xPupil, yPupil>>, "raDecFromPupilCoords")
    IN  IF are_arrays.raised # None THEN are_arrays
        ELSE IF obs_metadata = None
        THEN Raises(RuntimeError(<<"Cannot call raDecFromPupilCoords without ",
                                   "obs_metadata">>), <<>>)
        ELSE IF epoch = None
        THEN Raises(RuntimeError(<<"Cannot call raDecFromPupilCoords; ", "epoch",
                                   " is None">>), <<>>)
        ELSE IF obs_metadata[1].rotSkyPos = None
        THEN Raises(RuntimeError(<<"Cannot call raDecFromPupilCoords without ",
                                   "rotSkyPos", " in obs_metadata">>), <<>>)
        ELSE IF obs_metadata[1].pointingRA = None \/ obs_metadata[1].pointingDec = None
        THEN Raises(RuntimeError(<<"Cannot call raDecFromPupilCoords without ",
                                   "pointingRA", ", ", "pointingDec",
                                   " in obs_metadata">>), <<>>)
        ELSE IF obs_metadata[1].mjd = None
        THEN Raises(RuntimeError(<<"Cannot calculate x_pupil, y_pupil without ",
                                   "mjd", " in obs_metadata">>), <<>>)
        ELSE LET md       == obs_metadata[1]
                 pointing == _observedFromICRS(md.pointingRA, md.pointingDec, md, epoch)
                 theta    == md.rotSkyPos[1]
                 x_g0     == each2(LAMBDA u, v : minus(times_cos(u, theta),
                                                       times_sin(v, theta)),
                                   xPupil, yPupil)
                 y_g      == each2(LAMBDA u, v : plus(times_sin(u, theta),
                                                      times_cos(v, theta)),
                                   xPupil, yPupil)
                 x_g      == each(negative, x_g0)
                 obs      == each2(LAMBDA u, v :
                                       palpy_dtp2s(u, v, pointing[1], pointing[2]),
                                   x_g, y_g)
                 icrs     == each(LAMBDA o : _icrsFromObserved(o[1], o[2], md, epoch),
                                  obs)
             IN  Returns(<<each(LAMBDA p : p[1], icrs), each(LAMBDA p : p[2], icrs)>>,
                         <<"_observedFromICRS",
                           IF are_arrays.ret[1] THEN "dtp2sVector" ELSE "dtp2s",
                           "_icrsFromObserved">>)
_raDecFromPupilCoords(xPupil, yPupil, obs_metadata, epoch) ==
    LET are_arrays == _validate_inputs(<<xPupil, yPupil>>, "raDecFromPupilCoords")
    IN  IF are_arrays.raised # None THEN are_arrays
        ELSE IF obs_metadata = None
        THEN Raises(RuntimeError(<<"Cannot call raDecFromPupilCoords without ",
                                   "obs_metadata">>), <<>>)
        ELSE IF epoch = None
        THEN Raises(RuntimeError(<<"Cannot call raDecFromPupilCoords; ", "epoch",
                                   " is None">>), <<>>)
        ELSE IF obs_metadata[1].rotSkyPos = None
        THEN Raises(RuntimeError(<<"Cannot call raDecFromPupilCoords without ",
                                   "rotSkyPos", " in obs_metadata">>), <<>>)
        ELSE IF obs_metadata[1].pointingRA = None \/ obs_metadata[1].pointingDec = None
        THEN Raises(RuntimeError(<<"Cannot call raDecFromPupilCoords without ",
                                   "pointingRA", ", ", "pointingDec",
                                   " in obs_metadata">>), <<>>)
        ELSE IF obs_metadata[1].mjd = None
        THEN Raises(RuntimeError(<<"Cannot calculate x_pupil, y_pupil without ",
                                   "mjd", " in obs_metadata">>), <<>>)
        ELSE LET md       == obs_metadata[1]
                 pointing == _observedFromICRS(md.pointingRA, md.pointingDec, md, epoch)
                 theta    == <<md.rotSkyPos[1][1], -md.rotSkyPos[1][2]>>
                 x_g0     == each2(LAMBDA u, v : minus(times_cos(u, theta),
                                                       times_sin(v, theta)),
                                   xPupil, yPupil)
                 y_g      == each2(LAMBDA u, v : plus(times_sin(u, theta),
                                                      times_cos(v, theta)),
                                   xPupil, yPupil)
                 x_g      == each(negative, x_g0)
                 obs      == each2(LAMBDA u, v :
                                       palpy_dtp2s(u, v, pointing[1], pointing[2]),
                                   x_g, y_g)
                 icrs     == each(LAMBDA o : _icrsFromObserved(o[1], o[2], md, epoch),
                                  obs)
             IN  Returns(<<each(LAMBDA p : p[1], icrs), each(LAMBDA p : p[2], icrs)>>,
                         <<"_observedFromICRS",
                           IF are_arrays.ret[1] THEN "dtp2sVector" ELSE "dtp2s",
                           "_icrsFromObserved">>)

(***************************************************************************)
(* The calls a program makes on the two projections.  The pointing is      *)
(* (100, -50); a place is inside the field of view or outside it, and is   *)
(* given singly or in arrays of up to MaxLen; the ObservationMetaData has  *)
(* every rotSkyPos of Angles, or some of its fields None.                  *)
(***************************************************************************)
Inside == {<<float(125), float(-25)>>, <<float(50), float(-100)>>}
Outside == {<<float(300), float(-50)>>}
Batches == UNION {[1..n -> {<<float(125), float(-25)>>, <<float(300), float(-50)>>}] :
                      n \in 1..MaxLen}
\* the two arguments of a call: a place, a batch of places, and arguments
\* that do not go together
PlaceArgs ==
    {<<scalar(p[1]), scalar(p[2])>> : p \in Inside \cup Outside}
    \cup {<<ndarray([i \in DOMAIN b |-> b[i][1]]), ndarray([i \in DOMAIN b |-> b[i][2]])>> :
              b \in Batches}
MismatchedArgs ==
    {<<scalar(float(125)), ndarray(<<float(-25)>>)>>,
     <<ndarray(<<float(125)>>), ndarray(<<float(-25), float(-25)>>)>>}

Fields == {"pointingRA", "pointingDec", "rotSkyPos", "mjd"}
Pointed == {Some(ObservationMetaData(float(100), float(-50), Some(a), Some(3))) :
                a \in Angles}
Unpointed ==
    {None}
    \cup {Some(ObservationMetaData(pointingRA, pointingDec, rotSkyPos, mjd)) :
              pointingRA \in {None, float(100)}, pointingDec \in {None, float(-50)},
              rotSkyPos \in {None, Some(<<3, 4>>)}, mjd \in {None, Some(3)}}
\* the arguments of the calls: <<the two coordinates, obs_metadata, epoch>>
PupilCalls ==
    (PlaceArgs \X Pointed \X {Some(2000)})
    \cup (({<<scalar(float(125)), scalar(float(-25))>>} \cup MismatchedArgs)
          \X Unpointed \X {None, Some(2000), Some(2001)})

Call_pupilCoordsFromRaDec(ra_in, dec_in, obs_metadata, epoch, vector_raises) ==
    /\ call' = Ended("_pupilCoordsFromRaDec", <<ra_in, dec_in, obs_metadata, epoch>>,
                     _pupilCoordsFromRaDec(ra_in, dec_in, obs_metadata, epoch,
                                           vector_raises))
    /\ UNCHANGED <<objs, registry, filters>>

Call_raDecFromPupilCoords(xPupil, yPupil, obs_metadata, epoch) ==
    /\ call' = Ended("_raDecFromPupilCoords", <<xPupil, yPupil, obs_metadata, epoch>>,
                     _raDecFromPupilCoords(xPupil, yPupil, obs_metadata, epoch))
    /\ UNCHANGED <<objs, registry, filters>>

\* the pupil coordinates that _pupilCoordsFromRaDec has returned, given to
\* _raDecFromPupilCoords with the same obs_metadata and epoch
Call_roundTrip ==
    /\ call.op = "_pupilCoordsFromRaDec" /\ call.ret # None
    /\ Call_raDecFromPupilCoords(call.ret[1][1], call.ret[1][2],
                                 call.args[3], call.args[4])

\* a program that projects places onto the pupil, and pupil coordinates of
\* its own or those it was given back onto the sky
NextPupil ==
    \/ \E c \in PupilCalls, vector_raises \in BOOLEAN :
           Call_pupilCoordsFromRaDec(c[1][1], c[1][2], c[2], c[3], vector_raises)
    \/ \E c \in PupilCalls :
           Call_raDecFromPupilCoords(c[1][1], c[1][2], c[2], c[3])
    \/ Call_roundTrip

SpecPupil == Init /\ [][NextPupil]_vars

(***************************************************************************)
(* WcsUtils.py.  An angle is <<c, s, r>>, its cosine c/r and its sine s/r; *)
(* a vector is <<x, y, z, d>>, its components x/d, y/d and z/d.  The       *)
(* angles of the model are those whose cosine and sine are fractions, so   *)
(* that every step is exact but for the rounding of floating point, which  *)
(* is an input of the call: the argument of numpy.arccos that would be -1, *)
(* 0 or 1 without rounding is off by rounding units.                       *)
(***************************************************************************)
Angle(c, s, r) == <<c, s, r>>
numpy_pi == Angle(-1, 0, 1)
Zero == Angle(1, 0, 1)
HalfPi == Angle(0, 1, 1)
numpy_sign(n) == IF n > 0 THEN 1 ELSE IF n < 0 THEN -1 ELSE 0
\* numpy.sqrt of a square that is at most m*m
numpy_sqrt(n, m) == CHOOSE k \in 0..m : k * k = n
\* 2.0*numpy.pi - a
TwoPiMinus(a) == IF a = NaN THEN NaN ELSE Angle(a[1], -a[2], a[3])

\* a Python float, a numpy.float64, and the TypeError of Python
pyfloat(a) == [type |-> "float", val |-> a]
float64(a) == [type |-> "numpy.float64", val |-> a]
TypeError(msg) == [type |-> "TypeError", msg |-> msg]

\* numpy.array([x, y, z]) of the place (lon, lat)
xyz(lon, lat) ==
    <<-(lat[1] * lon[2]), lat[1] * lon[1], lat[2] * lon[3], lat[3] * lon[3]>>
\* the two rotation matrices applied to v: about the z axis by beta, about
\* the x axis by alpha
Rz(beta, v) ==
    <<beta[1] * v[1] - beta[2] * v[2], beta[2] * v[1] + beta[1] * v[2],
      beta[3] * v[3], beta[3] * v[4]>>
Rx(alpha, v) ==
    <<alpha[3] * v[1], alpha[1] * v[2] + alpha[2] * v[3],
      alpha[1] * v[3] - alpha[2] * v[2], alpha[3] * v[4]>>

\* v2 of _nativeLonLatFromRaDec and v2 of _raDecFromNativeLonLat
native_v2(ra, dec, raPointing, decPointing) ==
    LET alpha == Angle(decPointing[2], -decPointing[1], decPointing[3])
        beta  == Angle(raPointing[1], -raPointing[2], raPointing[3])
    IN  Rx(alpha, Rz(beta, xyz(ra, dec)))
equatorial_v2(lon, lat, raPointing, decPointing) ==
    LET alpha == Angle(decPointing[2], decPointing[1], decPointing[3])
        beta  == raPointing
    IN  Rz(beta, Rx(alpha, xyz(lon, lat)))

\* cc, numpy.arctan2(v2[2], cc), and _y = v2[1]/numpy.cos(latOut) as it is
\* rounded: outside [-1, 1] or not, and its sign; where cc is 0, v2[1] and
\* the cosine are what rounding has left of 0
cc_of(v2) == numpy_sqrt(v2[1] * v2[1] + v2[2] * v2[2], v2[4])
arctan2(z, cc, d) == Angle(cc, z, d)
y_outside(v2, cc, rounding) ==
    IF cc = 0 THEN rounding # 0
    ELSE v2[2] * v2[2] = cc * cc /\ rounding = numpy_sign(v2[2])
sign_y(v2, cc, rounding) == IF cc = 0 THEN rounding ELSE numpy_sign(v2[2])
numpy_arccos(v2, cc, rounding) ==
    IF y_outside(v2, cc, rounding) THEN NaN
    ELSE IF cc = 0 THEN HalfPi
    ELSE Angle(v2[2], numpy_sqrt(cc * cc - v2[2] * v2[2], cc), cc)
\* (abs(_x) > 1.0e-9 and sign(_x) != sign(v2[0])) or
\* (abs(_y) > 1.0e-9 and sign(_y) != sign(v2[1])), with _x = -sin(_ra);
\* v2[0], v2[1] and v2[2] of the code are v2[1], v2[2] and v2[3] here
other_half(_ra, v2, cc, rounding) ==
    /\ _ra # NaN
    /\ \/ _ra[2] # 0 /\ -numpy_sign(_ra[2]) # numpy_sign(v2[1])
       \/ sign_y(v2, cc, rounding) # 0
          /\ sign_y(v2, cc, rounding) # (IF cc = 0 THEN rounding
                                         ELSE numpy_sign(v2[2]))

\* _nativeLonLatFromRaDec, lonOut of an element of a sequence: the branch
\* of hasattr(_ra_raw, '__len__') and the else of type(_ra) is numpy.float64
nativeLon_element(v2, rounding) ==
    LET cc      == cc_of(v2)
        _ra_raw == numpy_arccos(v2, cc, rounding)
        _ra     == IF _ra_raw # NaN THEN _ra_raw
                   ELSE IF sign_y(v2, cc, rounding) < 0 THEN numpy_pi
                   ELSE IF sign_y(v2, cc, rounding) > 0 THEN Zero
                   ELSE HalfPi
        _lonOut == IF other_half(_ra, v2, cc, rounding) THEN TwoPiMinus(_ra) ELSE _ra
    IN  IF _lonOut = NaN THEN Zero ELSE _lonOut

\* _nativeLonLatFromRaDec; rounding: for every place, the rounding units by
\* which _y is off
_nativeLonLatFromRaDec(ra, dec, raPointing, decPointing, rounding) ==
    IF ra.ndarray
    THEN LET v2 == [i \in DOMAIN ra.val |->
                        native_v2(ra.val[i], dec.val[i], raPointing, decPointing)]
         IN  Returns(<<ndarray([i \in DOMAIN ra.val |->
                                    nativeLon_element(v2[i], rounding[i])]),
                       ndarray([i \in DOMAIN ra.val |->
                                    arctan2(v2[i][3], cc_of(v2[i]), v2[i][4])])>>, <<>>)
    ELSE LET v2      == native_v2(item(ra), item(dec), raPointing, decPointing)
             cc      == cc_of(v2)
             latOut  == arctan2(v2[3], cc, v2[4])
             _ra_raw == numpy_arccos(v2, cc, rounding[1])
             _ra     == IF _ra_raw = NaN
                        THEN IF sign_y(v2, cc, rounding[1]) < 0 THEN pyfloat(numpy_pi)
                             ELSE pyfloat(Zero)
                        ELSE float64(_ra_raw)
         IN  IF _ra.type = "numpy.float64"
             THEN Returns(<<scalar(IF _ra.val = NaN THEN Zero
                                   ELSE IF other_half(_ra.val, v2, cc, rounding[1])
                                   THEN TwoPiMinus(_ra.val)
                                   ELSE _ra.val),
                            scalar(latOut)>>, <<>>)
             ELSE Raises(TypeError(<<"zip argument #1 must support iteration">>), <<>>)

\* _raDecFromNativeLonLat, raOut of a single place or of an element
equatorialRa_element(v2, rounding) ==
    LET cc  == cc_of(v2)
        _ra == numpy_arccos(v2, cc, rounding)
    IN  IF _ra = NaN THEN Zero
        ELSE IF other_half(_ra, v2, cc, rounding) THEN TwoPiMinus(_ra)
        ELSE _ra

\* _raDecFromNativeLonLat
_raDecFromNativeLonLat(lon, lat, raPointing, decPointing, rounding) ==
    LET v2 == [i \in DOMAIN lon.val |->
                   equatorial_v2(lon.val[i], lat.val[i], raPointing, decPointing)]
        raOut  == [i \in DOMAIN lon.val |-> equatorialRa_element(v2[i], rounding[i])]
        decOut == [i \in DOMAIN lon.val |-> arctan2(v2[i][3], cc_of(v2[i]), v2[i][4])]
    IN  IF lon.ndarray THEN Returns(<<ndarray(raOut), ndarray(decOut)>>, <<>>)
        ELSE Returns(<<scalar(raOut[1]), scalar(decOut[1])>>, <<>>)

(***************************************************************************)
(* The calls a program makes on the two transformations: targets on the    *)
(* quarter turns and the 3-4-5 angles of right ascension and declination   *)
(* (the poles included), singly or in sequences of up to MaxLen; pointings *)
(* on the quarter turns, the poles included; every rounding of _y where it *)
(* would be -1, 0 or 1.                                                    *)
(***************************************************************************)
TargetRas == {Angle(5, 0, 5), Angle(3, 4, 5), Angle(-4, 3, 5), Angle(-5, 0, 5),
              Angle(-3, -4, 5), Angle(0, -5, 5)}
TargetDecs == {Angle(0, -5, 5), Angle(4, -3, 5), Angle(3, 4, 5), Angle(0, 5, 5)}
PointingRas == {Zero, HalfPi, numpy_pi}
PointingDecs == {Angle(0, -1, 1), Zero, HalfPi}
Roundings == {-1, 0, 1}

\* the places whose native longitude and latitude are angles of the model
IsAngle(v2) == \E k \in 0..v2[4] : k * k = v2[1] * v2[1] + v2[2] * v2[2]
\* the places for which the rounding of _y tells
OnCut(v2) == v2[1] = 0
\* the sequences of a call: the targets and the rounding of each
TargetSeqs(raPointing, decPointing) ==
    LET Elements ==
            {e \in {<<Angle(-5, 0, 5), Angle(4, -3, 5)>>, <<Angle(3, 4, 5), Angle(4, 3, 5)>>}
                   \X Roundings :
                 LET v2 == native_v2(e[1][1], e[1][2], raPointing, decPointing)
                 IN  IsAngle(v2) /\ (e[2] = 0 \/ OnCut(v2))}
    IN  UNION {[1..n -> Elements] : n \in 1..MaxLen}

Call_nativeLonLatFromRaDec(ra, dec, raPointing, decPointing, rounding) ==
    /\ call' = Ended("_nativeLonLatFromRaDec",
                     <<ra, dec, raPointing, decPointing, rounding>>,
                     _nativeLonLatFromRaDec(ra, dec, raPointing, decPointing, rounding))
    /\ UNCHANGED <<objs, registry, filters>>

Call_raDecFromNativeLonLat(lon, lat, raPointing, decPointing, rounding) ==
    /\ call' = Ended("_raDecFromNativeLonLat",
                     <<lon, lat, raPointing, decPointing, rounding>>,
                     _raDecFromNativeLonLat(lon, lat, raPointing, decPointing, rounding))
    /\ UNCHANGED <<objs, registry, filters>>

\* the native longitude and latitude that _nativeLonLatFromRaDec has
\* returned, given to _raDecFromNativeLonLat with the same pointing
Call_nativeRoundTrip ==
    /\ call.op = "_nativeLonLatFromRaDec" /\ call.ret # None
    /\ \E rounding \in [DOMAIN call.ret[1][1].val -> Roundings] :
           /\ \A i \in DOMAIN rounding :
                  \/ rounding[i] = 0
                  \/ OnCut(equatorial_v2(call.ret[1][1].val[i], call.ret[1][2].val[i],
                                         call.args[3], call.args[4]))
           /\ Call_raDecFromNativeLonLat(call.ret[1][1], call.ret[1][2],
                                         call.args[3], call.args[4], rounding)

\* a program that transforms targets into the native system of a pointing
\* and back
NextNative ==
    \/ \E ra \in TargetRas, dec \in TargetDecs, raPointing \in PointingRas,
          decPointing \in PointingDecs, rounding \in Roundings :
            /\ IsAngle(native_v2(ra, dec, raPointing, decPointing))
            /\ rounding = 0 \/ OnCut(native_v2(ra, dec, raPointing, decPointing))
            /\ Call_nativeLonLatFromRaDec(scalar(ra), scalar(dec), raPointing,
                                          decPointing, <<rounding>>)
    \/ \E raPointing \in PointingRas, decPointing \in PointingDecs :
           \E s \in TargetSeqs(raPointing, decPointing) :
               Call_nativeLonLatFromRaDec(ndarray([i \in DOMAIN s |-> s[i][1][1]]),
                                          ndarray([i \in DOMAIN s |-> s[i][1][2]]),
                                          raPointing, decPointing,
                                          [i \in DOMAIN s |-> s[i][2]])
    \/ Call_nativeRoundTrip

SpecNative == Init /\ [][NextNative]_vars

(***************************************************************************)
(* coordinateTransformations.py: the rotator angles.  getRotSkyPos and     *)
(* getRotTelPos combine the rotator angle they are given with the          *)
(* parallactic angle of raDecToAltAzPa by numpy arithmetic, which pairs a  *)
(* single value, or an array of one value, with every element of the other *)
(* operand and fails with ValueError on arrays of two other lengths.       *)
(***************************************************************************)
ValueError(msg) == [type |-> "ValueError", msg |-> msg]

broadcastable(a, b) ==
    ~a.ndarray \/ ~b.ndarray \/ len(a) = len(b) \/ len(a) = 1 \/ len(b) = 1
broadcast_at(a, i) == IF ~a.ndarray \/ len(a) = 1 THEN a.val[1] ELSE a.val[i]
broadcast2(F(_, _), a, b) ==
    IF ~a.ndarray /\ ~b.ndarray THEN scalar(F(item(a), item(b)))
    ELSE LET n == IF ~a.ndarray THEN len(b)
                  ELSE IF ~b.ndarray THEN len(a)
                  ELSE IF len(a) = 1 THEN len(b) ELSE len(a)
         IN  ndarray([i \in 1..n |-> F(broadcast_at(a, i), broadcast_at(b, i))])

\* the arithmetic F of numpy on the rotator angle and paRad, the third of
\* what raDecToAltAzPa has returned
with_paRad(F(_, _), rotRad, aap) ==
    IF aap.raised # None THEN aap
    ELSE IF ~broadcastable(rotRad, aap.ret[1][3])
    THEN Raises(ValueError(<<"operands could not be broadcast together">>), aap.called)
    ELSE Returns(broadcast2(F, rotRad, aap.ret[1][3]), aap.called)

getRotSkyPosM(raRad, decRad, longRad, latRad, mjd, rotTelRad) ==
    with_paRad(LAMBDA r, p : r - p + TwoPi \div 2, rotTelRad,
               raDecToAltAzPa(raRad, decRad, longRad, latRad, mjd))
getRotSkyPos(raRad, decRad, longRad, latRad, mjd, rotTelRad) ==
    with_paRad(LAMBDA r, p : (r - p + TwoPi \div 2) % TwoPi, rotTelRad,
               raDecToAltAzPa(raRad, decRad, longRad, latRad, mjd))

getRotTelPos(raRad, decRad, longRad, latRad, mjd, rotSkyRad) ==
    with_paRad(LAMBDA r, p : (r + p) % TwoPi, rotSkyRad,
               raDecToAltAzPa(raRad, decRad, longRad, latRad, mjd))

\* the distance on the sky of two positions, kept as what it is computed
\* from
haversine(long1, lat1, long2, lat2) == <<"haversine", long1, lat1, long2, lat2>>

\* the dictionary of calcObsDefaults, of the place of the moon and the
\* angle of the sky on the camera
obsMd_of(moon, rotSkyPos, raRad, decRad, altRad, azRad, rotTelRad, band) ==
    IF moon.raised # None THEN moon
    ELSE IF rotSkyPos.raised # None THEN rotSkyPos
    ELSE Returns([Opsim_moonra         |-> moon.ret[1][1],
                  Opsim_moondec        |-> moon.ret[1][2],
                  Opsim_sunalt         |-> scalar(-(TwoPi \div 4)),
                  Opsim_moonalt        |-> scalar(-(TwoPi \div 4)),
                  Opsim_dist2moon      |-> haversine(moon.ret[1][1], moon.ret[1][2],
                                                     raRad, decRad),
                  Opsim_filter         |-> band,
                  Unrefracted_RA       |-> raRad,
                  Unrefracted_Dec      |-> decRad,
                  Opsim_rotskypos      |-> rotSkyPos.ret[1],
                  Opsim_rottelpos      |-> rotTelRad,
                  Unrefracted_Altitude |-> altRad,
                  Unrefracted_Azimuth  |-> azRad],
                 moon.called \o rotSkyPos.called)

\* the metadata of an observation: the moon is put at the nadir, and the
\* angle of the sky on the camera is getRotSkyPos of that of the telescope
calcObsDefaults(raRad, decRad, altRad, azRad, rotTelRad, mjd, band, longRad, latRad) ==
    obsMd_of(altAzToRaDec(scalar(-(TwoPi \div 4)), scalar(0), longRad, latRad, mjd),
             getRotSkyPos(raRad, decRad, longRad, latRad, mjd, rotTelRad),
             raRad, decRad, altRad, azRad, rotTelRad, band)

\* dict.update, and every value of the metadata paired with its numpy type
dict_update(obsMd, kwargs) ==
    [k \in DOMAIN obsMd \cup DOMAIN kwargs |->
        IF k \in DOMAIN kwargs THEN kwargs[k] ELSE obsMd[k]]
makeObservationMetadata(metaData) ==
    [k \in DOMAIN metaData |->
        <<metaData[k], IF k = "Opsim_filter" THEN "string" ELSE "float64">>]
\* obsMd.update(kwargs) and makeObservationMetadata(obsMd), after the
\* transformation of the position
metadata_of(position, obsMd, kwargs) ==
    IF obsMd.raised # None THEN obsMd
    ELSE Returns(makeObservationMetadata(dict_update(obsMd.ret[1], kwargs)),
                 position.called \o obsMd.called)

\* makeObsParamsAzAltTel, of the raRad and decRad that altAzToRaDec returned
AzAltTel_of(radec, azRad, altRad, mjd, band, rotTelRad, longRad, latRad, kwargs) ==
    IF radec.raised # None THEN radec
    ELSE metadata_of(radec,
                     calcObsDefaults(radec.ret[1][1], radec.ret[1][2], altRad, azRad,
                                     rotTelRad, mjd, band, longRad, latRad),
                     kwargs)
makeObsParamsAzAltTel(azRad, altRad, mjd, band, rotTelRad, longRad, latRad, kwargs) ==
    AzAltTel_of(altAzToRaDec(altRad, azRad, longRad, latRad, mjd),
                azRad, altRad, mjd, band, rotTelRad, longRad, latRad, kwargs)

\* makeObsParamsAzAltSky, of the same, and then of the rotTelRad that
\* getRotTelPos returned
AzAltSky_rot(rotTelRad, azRad, altRad, mjd, band, longRad, latRad, kwargs) ==
    IF rotTelRad.raised # None THEN rotTelRad
    ELSE makeObsParamsAzAltTel(azRad, altRad, mjd, band, rotTelRad.ret[1], longRad,
                               latRad, kwargs)
AzAltSky_of(radec, azRad, altRad, mjd, band, rotSkyRad, longRad, latRad, kwargs) ==
    IF radec.raised # None THEN radec
    ELSE AzAltSky_rot(getRotTelPos(radec.ret[1][1], radec.ret[1][2], longRad, latRad,
                                   mjd, rotSkyRad),
                      azRad, altRad, mjd, band, longRad, latRad, kwargs)
makeObsParamsAzAltSky(azRad, altRad, mjd, band, rotSkyRad, longRad, latRad, kwargs) ==
    AzAltSky_of(altAzToRaDec(altRad, azRad, longRad, latRad, mjd),
                azRad, altRad, mjd, band, rotSkyRad, longRad, latRad, kwargs)

\* makeObsParamsRaDecTel, of the altitude and azimuth that raDecToAltAzPa
\* returned
RaDecTel_of(aap, raRad, decRad, mjd, band, rotTelRad, longRad, latRad, kwargs) ==
    IF aap.raised # None THEN aap
    ELSE metadata_of(aap,
                     calcObsDefaults(raRad, decRad, aap.ret[1][1], aap.ret[1][2],
                                     rotTelRad, mjd, band, longRad, latRad),
                     kwargs)
makeObsParamsRaDecTel(raRad, decRad, mjd, band, rotTelRad, longRad, latRad, kwargs) ==
    RaDecTel_of(raDecToAltAzPa(raRad, decRad, longRad, latRad, mjd),
                raRad, decRad, mjd, band, rotTelRad, longRad, latRad, kwargs)

\* makeObsParamsRaDecSky, of the rotTelRad that getRotTelPos returned
RaDecSky_of(rotTelRad, raRad, decRad, mjd, band, longRad, latRad, kwargs) ==
    IF rotTelRad.raised # None THEN rotTelRad
    ELSE makeObsParamsRaDecTel(raRad, decRad, mjd, band, rotTelRad.ret[1],
                               longRad, latRad, kwargs)
makeObsParamsRaDecSky(raRad, decRad, mjd, band, rotSkyRad, longRad, latRad, kwargs) ==
    RaDecSky_of(getRotTelPos(raRad, decRad, longRad, latRad, mjd, rotSkyRad),
                raRad, decRad, mjd, band, longRad, latRad, kwargs)

(***************************************************************************)
(* The calls a program makes on the rotator functions: sky positions and   *)
(* dates of one shape, the rotator angle a single value or an array of up  *)
(* to MaxLen values, negative and beyond a turn among them; a result may   *)
(* be given back to the other function with the same position, site and    *)
(* date.                                                                   *)
(***************************************************************************)
RotatorAngles == {-30, -1, 0, 12, 31}
\* a position of n values (of one value for n = 0) seen from the site at
\* a date of m values
Pointing(n, m) == <<arg(2, n), arg(-3, n), scalar(-5), scalar(-2), arg(7, m)>>
\* the kwargs of a call: none, or another Opsim_rotskypos
Overrides(given) ==
    IF given THEN [Opsim_rotskypos |-> scalar(3)] ELSE [k \in {} |-> scalar(0)]

Call_getRotSkyPos(raRad, decRad, longRad, latRad, mjd, rotTelRad) ==
    /\ call' = Ended("getRotSkyPos", <<raRad, decRad, longRad, latRad, mjd, rotTelRad>>,
                     getRotSkyPos(raRad, decRad, longRad, latRad, mjd, rotTelRad))
    /\ UNCHANGED <<objs, registry, filters>>

Call_getRotTelPos(raRad, decRad, longRad, latRad, mjd, rotSkyRad) ==
    /\ call' = Ended("getRotTelPos", <<raRad, decRad, longRad, latRad, mjd, rotSkyRad>>,
                     getRotTelPos(raRad, decRad, longRad, latRad, mjd, rotSkyRad))
    /\ UNCHANGED <<objs, registry, filters>>

\* the angle one function returned, given to the other
Call_rotatorRoundTrip ==
    /\ call.op \in {"getRotSkyPos", "getRotTelPos"}
    /\ call.ret # None
    /\ IF call.op = "getRotSkyPos"
       THEN Call_getRotTelPos(call.args[1], call.args[2], call.args[3], call.args[4],
                              call.args[5], call.ret[1])
       ELSE Call_getRotSkyPos(call.args[1], call.args[2], call.args[3], call.args[4],
                              call.args[5], call.ret[1])

Call_makeObsParamsRaDecSky(raRad, decRad, mjd, band, rotSkyRad, longRad, latRad, kwargs) ==
    /\ call' = Ended("makeObsParamsRaDecSky",
                     <<raRad, decRad, mjd, band, rotSkyRad, longRad, latRad, kwargs>>,
                     makeObsParamsRaDecSky(raRad, decRad, mjd, band, rotSkyRad,
                                           longRad, latRad, kwargs))
    /\ UNCHANGED <<objs, registry, filters>>

Call_makeObsParamsAzAltSky(azRad, altRad, mjd, band, rotSkyRad, longRad, latRad, kwargs) ==
    /\ call' = Ended("makeObsParamsAzAltSky",
                     <<azRad, altRad, mjd, band, rotSkyRad, longRad, latRad, kwargs>>,
                     makeObsParamsAzAltSky(azRad, altRad, mjd, band, rotSkyRad,
                                           longRad, latRad, kwargs))
    /\ UNCHANGED <<objs, registry, filters>>

NextRotator ==
    \/ \E n \in 0..MaxLen, m \in 0..MaxLen, v \in RotatorAngles, k \in 0..MaxLen :
          /\ m \in {0, n}
          /\ LET p == Pointing(n, m)
             IN  Call_getRotSkyPos(p[1], p[2], p[3], p[4], p[5], arg(v, k))
    \/ \E n \in 0..MaxLen, m \in 0..MaxLen, v \in RotatorAngles, k \in 0..MaxLen :
          /\ m \in {0, n}
          /\ LET p == Pointing(n, m)
             IN  Call_getRotTelPos(p[1], p[2], p[3], p[4], p[5], arg(v, k))
    \/ Call_rotatorRoundTrip
    \/ \E raRad \in {2, 9}, decRad \in {-3, 4}, mjd \in {7, 30}, v \in RotatorAngles,
          given \in BOOLEAN :
          Call_makeObsParamsRaDecSky(scalar(raRad), scalar(decRad), scalar(mjd), "r",
                                     scalar(v), scalar(-5), scalar(-2),
                                     Overrides(given))
    \/ \E azRad \in {0, 5, 12, 17}, altRad \in {3}, mjd \in {7, 30}, v \in RotatorAngles,
          given \in BOOLEAN :
          Call_makeObsParamsAzAltSky(scalar(azRad), scalar(altRad), scalar(mjd), "r",
                                     scalar(v), scalar(-5), scalar(-2),
                                     Overrides(given))

SpecRotator == Init /\ [][NextRotator]_vars

(***************************************************************************)
(* CoordinateTransformations.py: Cartesian vectors.  An angle is           *)
(* Angle(c, s, r) as above; a vector is <<x, y, z, d>>, the components x/d,*)
(* y/d and z/d; a number of a matrix is <<n, d>>, n/d, or NaN.  An array   *)
(* of points carries its shape: one row a point, or the three components   *)
(* of one point.                                                           *)
(***************************************************************************)
points(shape, rows) == [val |-> rows, ndarray |-> TRUE, shape |-> shape]
python_list(rows) == [val |-> rows, ndarray |-> FALSE, shape |-> <<>>]

cartesianFromSpherical(longitude, latitude) ==
    IF ~isinstance_ndarray(longitude) \/ ~isinstance_ndarray(latitude)
    THEN Raises(RuntimeError(<<"you need to pass numpy arrays to ",
                               "cartesianFromSpherical">>), <<>>)
    ELSE LET row(lon, lat) == <<lon[1] * lat[1], lon[2] * lat[1], lat[2] * lon[3],
                                lon[3] * lat[3]>>
             xyz_ == each2(row, longitude, latitude)
         IN  Returns(points(<<len(xyz_), 3>>, xyz_.val), <<>>)

\* numpy.arctan2(y, x) and numpy.arcsin(z/rad) of one point
sphericalFromCartesian_point(p) ==
    LET hyp == numpy_sqrt(p[1] * p[1] + p[2] * p[2], 2 * p[4])
        rad == numpy_sqrt(p[1] * p[1] + p[2] * p[2] + p[3] * p[3], 2 * p[4])
    IN  <<IF hyp = 0 THEN Zero ELSE Angle(p[1], p[2], hyp),
          IF rad = 0 THEN NaN ELSE Angle(hyp, p[3], rad)>>

sphericalFromCartesian(xyz_) ==
    IF ~isinstance_ndarray(xyz_)
    THEN Raises(RuntimeError(<<"you need to pass a numpy array to ",
                               "sphericalFromCartesian">>), <<>>)
    ELSE IF Len(xyz_.shape) > 1
    THEN LET out == [i \in DOMAIN xyz_.val |-> sphericalFromCartesian_point(xyz_.val[i])]
         IN  Returns(<<ndarray([i \in DOMAIN out |-> out[i][1]]),
                       ndarray([i \in DOMAIN out |-> out[i][2]])>>, <<>>)
    ELSE LET out == sphericalFromCartesian_point(xyz_.val[1])
         IN  Returns(<<scalar(out[1]), scalar(out[2])>>, <<>>)

\* numpy.abs(numpy.sqrt(numpy.dot(v, v)) - 1.0) > 0.01, on the squares
not_unit(v) ==
    LET n == v[1] * v[1] + v[2] * v[2] + v[3] * v[3]
    IN  n * 10000 > 10201 * v[4] * v[4] \/ n * 10000 < 9801 * v[4] * v[4]

\* the matrix of the axis and the angle, a list of three lists: the axis is
\* the cross product over its length s, and 0/0 is NaN; the cosine of the
\* angle is c/dd, its sine sn/dd
rotationMatrixFromVectors(v1, v2) ==
    IF not_unit(v1)
    THEN Raises(RuntimeError(<<"v1", " in rotationMatrixFromVectors is not a ",
                               "unit vector">>), <<>>)
    ELSE IF not_unit(v2)
    THEN Raises(RuntimeError(<<"v2", " in rotationMatrixFromVectors is not a ",
                               "unit vector">>), <<>>)
    ELSE LET dd    == v1[4] * v2[4]
             cross == <<v1[2] * v2[3] - v1[3] * v2[2],
                        v1[3] * v2[1] - v1[1] * v2[3],
                        v1[1] * v2[2] - v1[2] * v2[1]>>
             s     == numpy_sqrt(cross[1] * cross[1] + cross[2] * cross[2]
                                     + cross[3] * cross[3], dd)
             c     == v1[1] * v2[1] + v1[2] * v2[2] + v1[3] * v2[3]
             sn    == numpy_sqrt(dd * dd - c * c, dd)
             over(n) == IF s = 0 THEN NaN ELSE <<n, dd * s * s>>
             on(i) == over(c * s * s + (dd - c) * cross[i] * cross[i])
             off(i, j, k, sign) ==
                 over(sign * cross[k] * sn * s + (dd - c) * cross[i] * cross[j])
         IN  Returns(python_list(<<<<on(1), off(1, 2, 3, -1), off(1, 3, 2, 1)>>,
                                   <<off(1, 2, 3, 1), on(2), off(2, 3, 1, -1)>>,
                                   <<off(1, 3, 2, -1), off(2, 3, 1, 1), on(3)>>>>),
                     <<>>)

(***************************************************************************)
(* The calls a program makes on the functions that take a single value or  *)
(* a sequence: directions on the quarter turns and the 3-4-5 angles,       *)
(* singly or in arrays of one length up to MaxLen; unit vectors on the     *)
(* axes and in the coordinate planes, equal and opposite ones among them,  *)
(* and vectors too long or too short.  The targets of                      *)
(* _nativeLonLatFromRaDec are here those for which numpy.arccos gives a    *)
(* number; the others are the calls of NextNative.                         *)
(***************************************************************************)
Longitudes == {Angle(5, 0, 5), Angle(3, 4, 5), Angle(0, 5, 5), Angle(-4, -3, 5)}
Latitudes == {Angle(0, -5, 5), Angle(3, -4, 5), Angle(5, 0, 5), Angle(4, 3, 5)}
UnitVectors ==
    {<<5, 0, 0, 5>>, <<0, 5, 0, 5>>, <<0, 0, -5, 5>>, <<3, 4, 0, 5>>, <<-5, 0, 0, 5>>,
     <<-3, -4, 0, 5>>, <<0, -4, 3, 5>>}
OtherVectors == {<<5, 1, 0, 5>>, <<4, 2, 2, 5>>}
\* the pairs of vectors for which the sine of the angle is a number of the
\* model
Rational(v1, v2) ==
    LET c  == v1[1] * v2[1] + v1[2] * v2[2] + v1[3] * v2[3]
        dd == v1[4] * v2[4]
    IN  \E k \in 0..dd : k * k = dd * dd - c * c

Call_cartesianFromSpherical(longitude, latitude) ==
    /\ call' = Ended("cartesianFromSpherical", <<longitude, latitude>>,
                     cartesianFromSpherical(longitude, latitude))
    /\ UNCHANGED <<objs, registry, filters>>

Call_sphericalFromCartesian(xyz_) ==
    /\ call' = Ended("sphericalFromCartesian", <<xyz_>>, sphericalFromCartesian(xyz_))
    /\ UNCHANGED <<objs, registry, filters>>

Call_rotationMatrixFromVectors(v1, v2) ==
    /\ call' = Ended("rotationMatrixFromVectors", <<v1, v2>>,
                     rotationMatrixFromVectors(v1, v2))
    /\ UNCHANGED <<objs, registry, filters>>

NextVectors ==
    \/ \E lon \in Longitudes, lat \in Latitudes, n \in 0..MaxLen, m \in 0..MaxLen :
          /\ n = 0 \/ m \in {0, n}
          /\ Call_cartesianFromSpherical(
                 IF n = 0 THEN scalar(lon)
                 ELSE ndarray([i \in 1..n |-> IF i = 1 THEN lon ELSE Angle(0, 5, 5)]),
                 IF m = 0 THEN scalar(lat)
                 ELSE ndarray([i \in 1..m |-> IF i = 1 THEN lat ELSE Angle(4, 3, 5)]))
    \/ /\ call.op = "cartesianFromSpherical"
       /\ call.ret # None
       /\ \/ Call_sphericalFromCartesian(call.ret[1])
          \/ Call_sphericalFromCartesian(points(<<3>>, <<call.ret[1].val[1]>>))
          \/ Call_sphericalFromCartesian(python_list(call.ret[1].val))
    \/ \E v1 \in UnitVectors \cup OtherVectors, v2 \in UnitVectors \cup OtherVectors :
          /\ Rational(v1, v2)
          /\ Call_rotationMatrixFromVectors(v1, v2)
    \/ \E mjd \in {7, 30}, longRad \in {-13, 5}, n \in 0..MaxLen :
          Call_calcLmstLast(arg(mjd, n), arg(longRad, n))
    \/ \E ra \in {Angle(-5, 0, 5), Angle(3, 4, 5)}, dec \in {Angle(4, -3, 5)},
          raPointing \in {Zero}, decPointing \in {Angle(0, -1, 1), Zero},
          rounding \in {0}, n \in 0..MaxLen :
          /\ IsAngle(native_v2(ra, dec, raPointing, decPointing))
          /\ Call_nativeLonLatFromRaDec(
                 IF n = 0 THEN scalar(ra) ELSE ndarray([i \in 1..n |-> ra]),
                 IF n = 0 THEN scalar(dec) ELSE ndarray([i \in 1..n |-> dec]),
                 raPointing, decPointing, [i \in 1..(IF n = 0 THEN 1 ELSE n) |-> rounding])

SpecVectors == Init /\ [][NextVectors]_vars

(***************************************************************************)
(* Properties of ModifiedJulianDate.                                       *)
(***************************************************************************)
\* the instant an object stands for, on one scale
Instant(o) == TimeTai(o._time)
\* what reading a property of o returns
ValueOf(o, attr) == Property(attr, o).ret
\* a text, kept as its parts, has this part
Contains(text, part) == \E i \in DOMAIN text : text[i] = part

\* C1: a read of TAI, UTC, UT1, dut1, TT or TDB returns what the property
\* returned before and will return afterwards, leaves the instant (_time)
\* and the value every property returns as they were, on every object, and
\* no property's value is computed more than once.
C1_ReadsArePureMemoization ==
    [][call'.op \in Attrs =>
         /\ call'.ret = Some(ValueOf(objs[call'.slot][1], call'.op))
         /\ \A s \in Slots :
              objs[s] # None =>
                /\ objs'[s] # None
                /\ objs'[s][1]._time = objs[s][1]._time
                /\ \A a \in Attrs :
                     /\ ValueOf(objs'[s][1], a) = ValueOf(objs[s][1], a)
                     /\ objs'[s][1].ncomp[a] <= 1]_vars

\* C1 witness: UT1 was read on the fallback path of an object every one of
\* whose properties has been read, the one it was constructed from included
C1_Witness ==
    /\ call.op = "UT1"
    /\ LET o == objs[call.slot][1]
       IN  /\ ~IersInRange(o._time)
           /\ o._time.scale = "tai"
           /\ o._tai # None /\ o._utc # None /\ o._ut1 # None
           /\ o._dut1 # None /\ o._tt # None /\ o._tdb # None
           /\ \A a \in Attrs \ {"TAI"} : o.ncomp[a] = 1

\* C2: constructing with neither TAI nor UTC raises RuntimeError with the
\* documented message, and binds no object.
C2_NeitherScaleRaises ==
    [][(call'.op = "__init__" /\ call'.args = <<None, None>>) =>
         /\ call'.raised = Some([type |-> "RuntimeError",
                                 msg  |-> "You must specify either TAI or UTC to instantiate ModifiedJulianDate"])
         /\ objs' = objs]_vars

C2_Witness ==
    /\ call.op = "__init__" /\ call.args = <<None, None>>
    /\ call.raised # None
    /\ objs[call.slot] = None

\* C3: a construction that is given both TAI and UTC yields no object.
C3_BothScalesRejected ==
    (call.op = "__init__" /\ call.args[1] # None /\ call.args[2] # None)
        => (call.raised # None /\ objs[call.slot] = None)

\* C4: mjd1 == mjd2 is true exactly when the two objects stand for the same
\* instant, whatever scale each was constructed from and whatever has been
\* cached on them.
C4_EqualIffSameInstant ==
    call.op = "__eq__" =>
        call.ret = Some(Instant(objs[call.slot][1]) = Instant(objs[call.args[1]][1]))

\* C4 witness: objects constructed from different scales, on which derived
\* properties have been read, compare equal
C4_Witness ==
    /\ call.op = "__eq__"
    /\ call.ret = Some(TRUE)
    /\ LET a == objs[call.slot][1]
           b == objs[call.args[1]][1]
       IN  /\ a._time.scale = "utc" /\ b._time.scale = "tai"
           /\ a._tai # None /\ b._utc # None /\ a._tdb # None /\ b._ut1 # None

\* C5: outside the UT1-UTC table a read of UT1 returns the object's UTC and
\* a read of dut1 returns 0, neither raises, and UT1 - UTC = dut1 (one unit
\* of the MJD standing for one second) on every object, inside the table
\* or outside it.
C5_FallbackOutsideTable ==
    /\ \A s \in Slots :
         objs[s] # None =>
           LET o == objs[s][1]
           IN  /\ (~IersInRange(o._time) /\ o._ut1 # None)
                     => o._ut1 = Some(TimeUtc(o._time))
               /\ (~IersInRange(o._time) /\ o._dut1 # None) => o._dut1 = Some(0)
               /\ (o._ut1 # None /\ o._dut1 # None)
                     => o._ut1[1] - ValueOf(o, "UTC") = o._dut1[1]
    /\ (call.op \in {"UT1", "dut1"} /\ ~IersInRange(objs[call.slot][1]._time))
         => /\ call.raised = None
            /\ call.ret = Some(IF call.op = "UT1"
                               THEN ValueOf(objs[call.slot][1], "UTC") ELSE 0)

\* C5 witness: UT1 and dut1 have both been read on an object outside the
\* table whose UTC differs from the MJD it was constructed from
C5_Witness ==
    /\ call.op = "UT1" /\ call.emitted # <<>>
    /\ LET o == objs[call.slot][1]
       IN  /\ ~IersInRange(o._time)
           /\ o._time.scale = "tai"
           /\ o._dut1 = Some(0)
           /\ call.ret = Some(TimeUtc(o._time))

\* C6: a warning issued by a read of UT1 or dut1 outside the table is a
\* UTCtoUT1Warning whose message names the property read, and a read of
\* dut1 issues exactly one.
C6_WarningKindAndText ==
    (call.op \in {"UT1", "dut1"} /\ call.emitted # <<>>) =>
        /\ \A i \in DOMAIN call.emitted :
             /\ call.emitted[i].category = "UTCtoUT1Warning"
             /\ \/ call.op = "UT1"
                     /\ Contains(call.emitted[i].text, "ModifiedJulianDate.UT1")
                \/ call.op = "dut1"
                     /\ Contains(call.emitted[i].text, "ModifiedJulianDate.dut1")
        /\ call.op = "dut1" => Len(call.emitted) = 1

(***************************************************************************)
(* Properties of dutFromUtc, ut1FromUtc and dttFromUtc.                    *)
(***************************************************************************)
\* y is the value at x on the straight lines through the samples (xp, fp),
\* rounded down: the sample itself at a sample, and between two samples
\* less than one unit below the line through them
OnTableLine(x, y, xp, fp) ==
    \E i \in 1..(Len(xp) - 1) :
        /\ xp[i] <= x /\ x <= xp[i + 1]
        /\ LET on == (y - fp[i]) * (xp[i + 1] - xp[i])
               at == (x - xp[i]) * (fp[i + 1] - fp[i])
           IN  on <= at /\ at < on + (xp[i + 1] - xp[i])

OutsideDutTable(utc) == utc < 48622000 \/ utc > 57711000

\* C7: for utc below the first or above the last MJD of the UT1-UTC table
\* dutFromUtc returns 0 and ut1FromUtc returns utc unchanged, nothing is
\* raised, and exactly one warning is issued, whose text has 'We will
\* return UT1-UTC = 0, for lack of a better idea'; for utc inside the table,
\* its ends included, no warning is issued and the value is the one linearly
\* interpolated in the table.
C7_DutFallbackAndInterpolation ==
    call.op \in {"dutFromUtc", "ut1FromUtc"} =>
        LET utc == call.args[1]
            dt  == IF call.op = "dutFromUtc" THEN call.ret[1] ELSE call.ret[1].sec
        IN  /\ call.raised = None
            /\ call.op = "ut1FromUtc" => call.ret[1].mjd = utc
            /\ IF OutsideDutTable(utc)
               THEN /\ dt = 0
                    /\ Len(call.emitted) = 1
                    /\ Contains(call.emitted[1].text,
                                "We will return UT1-UTC = 0, for lack of a better idea")
               ELSE /\ call.emitted = <<>>
                    /\ OnTableLine(utc, dt, Ut1MinusUtcData_mjd_arr,
                                   Ut1MinusUtcData_dut_arr)

\* C7 witness: ut1FromUtc was called below the table after dutFromUtc had
\* been called at the last sample of the table, where UT1-UTC is not 0
C7_Witness ==
    /\ call.op = "ut1FromUtc" /\ call.args[1] < 48622000
    /\ call.ret = Some([mjd |-> call.args[1], sec |-> 0])
    /\ Len(call.emitted) = 1
    /\ dutFromUtc(57711000).ret # 0

\* C8: whatever was called before, a call of dutFromUtc or ut1FromUtc with
\* utc outside the table shows its warning to the caller.
C8_WarningAlwaysDelivered ==
    (call.op \in {"dutFromUtc", "ut1FromUtc"} /\ OutsideDutTable(call.args[1]))
        => call.shown # <<>>

\* C9: a call of dttFromUtc with utc < 42589 or utc > 57019 raises nothing
\* and issues a warning.
C9_DttWarnsOutsideTable ==
    (call.op = "dttFromUtc" /\ (call.args[1] < 42589 \/ call.args[1] > 57019))
        => (call.raised = None /\ call.emitted # <<>>)

\* C10: dttFromUtc(utc) is 32.1840 s for utc < 42589, 32.1840 s + 27.6970e-6 s
\* for utc > 57019, and between the two 32.1840 s plus 1e-6 times the value
\* linearly interpolated in the TT-TAI table.
C10_DttValues ==
    call.op = "dttFromUtc" =>
        LET utc == call.args[1]
            tt  == call.ret[1]
        IN  /\ tt.sec = 321840
            /\ utc < 42589 => tt.micro = 0
            /\ utc > 57019 => tt.micro = 276970
            /\ (42589 <= utc /\ utc <= 57019)
                 => OnTableLine(utc, tt.micro, TT_from_TAI_Data_mjd_arr,
                                TT_from_TAI_Data_dt_arr)

\* C10 witness: a call between two samples of the table returned a value
\* strictly between theirs
C10_Witness ==
    /\ call.op = "dttFromUtc"
    /\ call.args[1] > 43679 /\ call.args[1] < 46459
    /\ call.ret[1].micro > 54460 /\ call.ret[1].micro < 146120


(***************************************************************************)
(* Properties of utcFromTai and utcFromUt1.                                *)
(***************************************************************************)
Abs(x) == IF x < 0 THEN -x ELSE x

\* C11: utcFromTai(taiFromUtc(utc)) differs from utc by less than a
\* microsecond, for utc on either side of a leap second boundary.
C11_UtcFromTaiInverts ==
    call.op = "utcFromTai" =>
        \A utc \in UtcNearLeap :
            taiFromUtc(utc) = call.args[1]
                => Abs(call.ret[1] - utc) * 1000000 < Second

\* C12: utcFromUt1(ut1FromUtc(utc)) differs from utc by no more than 1e-6
\* day, for utc inside the UT1-UTC table, within a day of its ends included.
C12_UtcFromUt1Inverts ==
    call.op = "utcFromUt1" =>
        \A bu \in UtcNearSample :
            (bu[1] = call.args[1] /\ ut1FromUtcAt(bu[1], bu[2]).ret = call.args[2])
                => Abs(call.ret[1] - bu[2]) * 1000 <= MilliDay


(***************************************************************************)
(* Properties of calcLmstLast, raDecToAltAzPa and altAzToRaDec.            *)
(***************************************************************************)
\* the call raised a RuntimeError and returned nothing
RaisedRuntimeError ==
    call.raised # None /\ call.raised[1].type = "RuntimeError" /\ call.ret = None

\* C13: calcLmstLast accepts a single mjd with a single longitude, an array
\* of mjd with a single longitude (every element of the result is what the
\* call with that element's mjd and the longitude returns) and arrays of the
\* same length (every element is what the call with that element's mjd and
\* longitude returns); a longitude array with a single mjd or with an mjd
\* array of another length raises RuntimeError, and no sidereal time has
\* been asked of palpy.
C13_CalcLmstLastShapes ==
    call.op = "calcLmstLast" =>
        LET mjd     == call.args[1]
            longRad == call.args[2]
            alone(i) == calcLmstLast(scalar(mjd.val[i]),
                                     scalar(IF longRad.ndarray THEN longRad.val[i]
                                            ELSE item(longRad))).ret[1]
        IN  IF longRad.ndarray /\ (~mjd.ndarray \/ len(longRad) # len(mjd))
            THEN RaisedRuntimeError /\ call.called = <<>>
            ELSE /\ call.raised = None
                 /\ call.ret # None
                 /\ \A k \in 1..2 :
                      /\ call.ret[1][k].ndarray = mjd.ndarray
                      /\ len(call.ret[1][k]) = len(mjd)
                      /\ \A i \in 1..len(mjd) :
                           /\ call.ret[1][k].val[i] = item(alone(i)[k])
                           /\ call.ret[1][k].val[i] \in 0..23

\* C13 witness: arrays of two different mjd and two different longitudes
\* gave two different local mean sidereal times
C13_Witness ==
    /\ call.op = "calcLmstLast"
    /\ call.args[1].ndarray /\ call.args[2].ndarray
    /\ len(call.args[1]) = 2 /\ len(call.args[2]) = 2
    /\ call.ret # None
    /\ call.ret[1][1].val[1] # call.ret[1][1].val[2]

\* a and b, to be of one shape, are not
Disagree(a, b) ==
    a.ndarray # b.ndarray \/ (a.ndarray /\ b.ndarray /\ len(a) # len(b))
\* mjd, to be single or of the shape of s, is not
MjdDisagrees(mjd, s) == mjd.ndarray /\ (~s.ndarray \/ len(mjd) # len(s))

\* C14: with a single longitude and latitude, raDecToAltAzPa and
\* altAzToRaDec raise RuntimeError, with a message that has the names of two
\* arguments that disagree, when one sky coordinate is an array and the
\* other is not, when both are arrays of different lengths, when mjd is an
\* array and the sky coordinates are not, and when mjd is an array of another
\* length than theirs; otherwise (a single mjd with arrays of one length
\* included) they return one value for every sky position.
C14_MismatchedShapesRejected ==
    (/\ call.op \in {"raDecToAltAzPa", "altAzToRaDec"}
     /\ ~call.args[3].ndarray /\ ~call.args[4].ndarray) =>
        LET sky1 == call.args[1]
            sky2 == call.args[2]
            mjd  == call.args[5]
            n1   == IF call.op = "raDecToAltAzPa" THEN "RA" ELSE "alt"
            n2   == IF call.op = "raDecToAltAzPa" THEN "Dec" ELSE "az"
            disagreeing ==
                {p \in {<<n1, n2>>} : Disagree(sky1, sky2)}
                \cup {p \in {<<"mjd", n1>>} : MjdDisagrees(mjd, sky1)}
                \cup {p \in {<<"mjd", n2>>} : MjdDisagrees(mjd, sky2)}
        IN  IF disagreeing # {}
            THEN /\ RaisedRuntimeError
                 /\ \E p \in disagreeing :
                      /\ Contains(call.raised[1].msg, p[1])
                      /\ Contains(call.raised[1].msg, p[2])
            ELSE /\ call.raised = None
                 /\ call.ret # None
                 /\ \A k \in DOMAIN call.ret[1] :
                      /\ call.ret[1][k].ndarray = sky1.ndarray
                      /\ len(call.ret[1][k]) = len(sky1)

\* C14 witness: raDecToAltAzPa was called with RA and Dec arrays of one
\* length and an mjd array of another, and raised
C14_Witness ==
    /\ call.op = "raDecToAltAzPa"
    /\ ~call.args[3].ndarray /\ ~call.args[4].ndarray
    /\ call.args[1].ndarray /\ call.args[2].ndarray /\ call.args[5].ndarray
    /\ len(call.args[1]) = len(call.args[2])
    /\ len(call.args[5]) # len(call.args[1])
    /\ call.raised # None

\* C15: raDecToAltAzPa and altAzToRaDec, given an array as longitude or as
\* latitude, raise a RuntimeError about the longitudes (or, the longitude
\* being single, the latitudes) whatever the shapes of the other arguments,
\* and have asked nothing of palpy.
C15_SingleSite ==
    (/\ call.op \in {"raDecToAltAzPa", "altAzToRaDec"}
     /\ (call.args[3].ndarray \/ call.args[4].ndarray)) =>
        /\ RaisedRuntimeError
        /\ call.called = <<>>
        /\ Contains(call.raised[1].msg,
                    IF call.args[3].ndarray THEN "longitudes" ELSE "latitudes")
        /\ \A n \in {"RA", "Dec", "alt", "az", "mjd"} : ~Contains(call.raised[1].msg, n)

\* C15 witness: altAzToRaDec was called with a latitude array, a single
\* longitude, and sky coordinates that disagree with each other and with mjd
C15_Witness ==
    /\ call.op = "altAzToRaDec"
    /\ call.args[4].ndarray /\ ~call.args[3].ndarray
    /\ Disagree(call.args[1], call.args[2])
    /\ MjdDisagrees(call.args[5], call.args[1])
    /\ call.raised # None


\* the fields of the obs_metadata of the call that are None
MissingFields(obs_metadata) == {f \in Fields : obs_metadata[1][f] = None}
\* the obs_metadata of every field, and the one without the field f
Complete == ObservationMetaData(float(100), float(-50), Some(<<3, 4>>), Some(3))
Without(f) == Some([Complete EXCEPT ![f] = None])
\* how the projection of the call ends when it is given obs_metadata instead
ProjectionWith(obs_metadata) ==
    IF call.op = "_pupilCoordsFromRaDec"
    THEN _pupilCoordsFromRaDec(call.args[1], call.args[2], obs_metadata, call.args[4],
                               FALSE)
    ELSE _raDecFromPupilCoords(call.args[1], call.args[2], obs_metadata, call.args[4])
\* a projection that was given coordinates that go together, an
\* obs_metadata and an epoch
ProjectionCalled ==
    /\ call.op \in {"_pupilCoordsFromRaDec", "_raDecFromPupilCoords"}
    /\ _validate_inputs(<<call.args[1], call.args[2]>>, "").raised = None
    /\ call.args[3] # None /\ call.args[4] # None

\* C16: _pupilCoordsFromRaDec and _raDecFromPupilCoords raise RuntimeError
\* when pointingRA, pointingDec, rotSkyPos or mjd of obs_metadata is None,
\* having called neither the observed-frame service nor the projection
\* primitive, and the error tells which field is missing: the error for one
\* field missing is not the error for another field missing.
C16_MissingFieldDistinguished ==
    (ProjectionCalled /\ MissingFields(call.args[3]) # {}) =>
        /\ RaisedRuntimeError
        /\ call.called = <<>>
        /\ \A f \in Fields : MissingFields(call.args[3]) = {f} =>
               \A g \in Fields \ {f} :
                   ProjectionWith(Without(g)).raised # call.raised

\* the element i of a batch of places as a single place
Single(a, i) == scalar(a.val[i])
\* whether the projection primitive fails for element i of the call
FailsAt(i) ==
    LET md       == call.args[3][1]
        o        == _observedFromICRS(call.args[1].val[i], call.args[2].val[i], md,
                                      call.args[4])
        pointing == _observedFromICRS(md.pointingRA, md.pointingDec, md, call.args[4])
    IN  ds2tp_fails(o[1], o[2], pointing[1], pointing[2])
\* a batched call to _pupilCoordsFromRaDec with every field of obs_metadata
BatchProjected ==
    /\ call.op = "_pupilCoordsFromRaDec" /\ ProjectionCalled
    /\ call.args[1].ndarray
    /\ MissingFields(call.args[3]) = {}

\* C17: a batched call to _pupilCoordsFromRaDec in which the projection
\* primitive fails for some elements does not raise; it returns one (x, y)
\* for every element, in order, x and y both NaN for the failing elements
\* and for no other, and every other (x, y) what the call with that element
\* alone returns.
C17_FailureIsolated ==
    (BatchProjected /\ \E i \in DOMAIN call.args[1].val : FailsAt(i)) =>
        /\ call.raised = None /\ call.ret # None
        /\ call.ret[1][1].ndarray /\ call.ret[1][2].ndarray
        /\ len(call.ret[1][1]) = len(call.args[1])
        /\ len(call.ret[1][2]) = len(call.args[1])
        /\ \A i \in DOMAIN call.args[1].val :
               LET x     == call.ret[1][1].val[i]
                   y     == call.ret[1][2].val[i]
                   alone == _pupilCoordsFromRaDec(Single(call.args[1], i),
                                                  Single(call.args[2], i),
                                                  call.args[3], call.args[4], FALSE)
               IN  IF FailsAt(i) THEN x = NaN /\ y = NaN
                   ELSE /\ x # NaN /\ y # NaN
                        /\ alone.ret # None
                        /\ <<x, y>> = <<item(alone.ret[1][1]), item(alone.ret[1][2])>>

\* a batch in which the projection fails for the first element and not for
\* the second, the vectorised primitive having raised
C17_Witness ==
    /\ BatchProjected
    /\ len(call.args[1]) >= 2
    /\ FailsAt(1) /\ ~FailsAt(2)
    /\ call.ret # None
    /\ call.ret[1][1].val[1] = NaN /\ call.ret[1][1].val[2] # NaN
    /\ Len(call.called) > 3 /\ call.called[4] = "ds2tp"

\* C18: _raDecFromPupilCoords, given the pupil coordinates that
\* _pupilCoordsFromRaDec returned and the same obs_metadata and epoch,
\* returns the (ra, dec) that were projected, for every rotSkyPos, wherever
\* the projection has not failed.
C18_RotationUndone ==
    [][(Call_roundTrip /\ call.raised = None) =>
           /\ call'.ret # None
           /\ call'.ret[1][1].ndarray = call.args[1].ndarray
           /\ \A i \in DOMAIN call.args[1].val :
                  call.ret[1][1].val[i] # NaN =>
                      /\ call'.ret[1][1].val[i] = call.args[1].val[i]
                      /\ call'.ret[1][2].val[i] = call.args[2].val[i]]_vars

\* pupil coordinates off both axes that _raDecFromPupilCoords has carried
\* back to the place whose projection they are
C18_Witness ==
    /\ call.op = "_raDecFromPupilCoords" /\ ProjectionCalled
    /\ MissingFields(call.args[3]) = {}
    /\ call.args[3][1].rotSkyPos[1] = <<-3, 4>>
    /\ ~call.args[1].ndarray
    /\ item(call.args[1]) \notin {NaN, float(0)}
    /\ item(call.args[2]) \notin {NaN, float(0)}
    /\ call.ret # None
    /\ _pupilCoordsFromRaDec(call.ret[1][1], call.ret[1][2], call.args[3],
                             call.args[4], FALSE).ret
           = Some(<<call.args[1], call.args[2]>>)
    /\ <<item(call.ret[1][1]), item(call.ret[1][2])>> \in Inside


\* v2, and whether the argument of numpy.arccos is just outside [-1, 1],
\* for element i of the call of _nativeLonLatFromRaDec
NativeV2(i) ==
    native_v2(call.args[1].val[i], call.args[2].val[i], call.args[3], call.args[4])
ArccosNaN(i) ==
    /\ cc_of(NativeV2(i)) > 0
    /\ y_outside(NativeV2(i), cc_of(NativeV2(i)), call.args[5][i])
\* the call of _nativeLonLatFromRaDec with element i as a single target
AsScalar(i) ==
    _nativeLonLatFromRaDec(Single(call.args[1], i), Single(call.args[2], i),
                           call.args[3], call.args[4], <<call.args[5][i]>>)

\* C19: when numpy.arccos gives NaN for a target of _nativeLonLatFromRaDec
\* (its argument is just outside [-1, 1]) the call does not fail and the
\* angle of the target is pi if the argument is negative and 0 otherwise,
\* the same for the target passed as a scalar as for the target as an
\* element of a sequence.
C19_NaNForcedAlike ==
    (call.op = "_nativeLonLatFromRaDec"
     /\ \E i \in DOMAIN call.args[1].val : ArccosNaN(i)) =>
        /\ call.raised = None /\ call.ret # None
        /\ \A i \in DOMAIN call.args[1].val : ArccosNaN(i) =>
               /\ call.ret[1][1].val[i]
                      = (IF sign_y(NativeV2(i), cc_of(NativeV2(i)), call.args[5][i]) < 0
                         THEN numpy_pi ELSE Zero)
               /\ AsScalar(i).raised = None /\ AsScalar(i).ret # None
               /\ item(AsScalar(i).ret[1][1]) = call.ret[1][1].val[i]

\* two vectors that are one direction
SameDirection(v, w) == \A k \in 1..3 : v[k] * w[4] = w[k] * v[4]

\* C20: _raDecFromNativeLonLat, given the native longitude and latitude
\* that _nativeLonLatFromRaDec returned and the same pointing, returns the
\* direction of the target, for every target and every pointing, those at
\* the poles included.
C20_NativeInverted ==
    [][Call_nativeRoundTrip =>
           /\ call'.raised = None /\ call'.ret # None
           /\ \A i \in DOMAIN call.args[1].val :
                  SameDirection(xyz(call'.ret[1][1].val[i], call'.ret[1][2].val[i]),
                                xyz(call.args[1].val[i], call.args[2].val[i]))]_vars

\* the angle of [0, 2 pi) that differs from x by whole turns
Turn(x) == CHOOSE v \in 0..(TwoPi - 1) : \E k \in -5..5 : x = v + k * TwoPi

\* a call of getRotSkyPos or getRotTelPos
RotatorCall == call.op \in {"getRotSkyPos", "getRotTelPos"}
\* the rotator angle has the shape of the sky position
RotatorShaped(args) ==
    /\ args[6].ndarray = args[1].ndarray
    /\ len(args[6]) = len(args[1])
\* the parallactic angle of the position, site and date of the call
ParallacticAngle(args) ==
    raDecToAltAzPa(args[1], args[2], args[3], args[4], args[5]).ret[1][3]

C24_RotatorInverse ==
    [][(/\ RotatorCall
        /\ call.ret # None
        /\ RotatorShaped(call.args)
        /\ call'.op \in {"getRotSkyPos", "getRotTelPos"} \ {call.op}
        /\ call'.args = <<call.args[1], call.args[2], call.args[3], call.args[4],
                          call.args[5], call.ret[1]>>
        /\ call'.ret # None) =>
            \A i \in DOMAIN call'.ret[1].val :
                call'.ret[1].val[i] = Turn(call.args[6].val[i])]_vars

\* a call of makeObsParamsRaDecSky or makeObsParamsAzAltSky without kwargs
\* that returned
SkyParams ==
    /\ call.op \in {"makeObsParamsRaDecSky", "makeObsParamsAzAltSky"}
    /\ call.ret # None
    /\ DOMAIN call.args[8] = {}
\* the rotTelPos that getRotTelPos derives from the rotSkyRad of the call
DerivedRotTelPos ==
    LET a == call.args
    IN  IF call.op = "makeObsParamsRaDecSky"
        THEN getRotTelPos(a[1], a[2], a[6], a[7], a[3], a[5]).ret[1]
        ELSE LET radec == altAzToRaDec(a[2], a[1], a[6], a[7], a[3]).ret[1]
             IN  getRotTelPos(radec[1], radec[2], a[6], a[7], a[3], a[5]).ret[1]

\* C25: the metadata that makeObsParamsRaDecSky and makeObsParamsAzAltSky
\* return without kwargs has for Opsim_rotskypos the rotSkyRad given, modulo
\* 2 pi, and for Opsim_rottelpos the rotTelPos derived from it.
C25_SkyAngleKept ==
    SkyParams =>
        /\ item(call.ret[1]["Opsim_rotskypos"][1]) = Turn(item(call.args[5]))
        /\ call.ret[1]["Opsim_rottelpos"][1] = DerivedRotTelPos

\* C26: getRotSkyPos and getRotTelPos raise an error when the rotator angle
\* is an array of another length than the arrays of RA and Dec, or an array
\* while RA and Dec are single values.
C26_RotatorShapeRejected ==
    (/\ RotatorCall
     /\ call.args[6].ndarray
     /\ ~call.args[1].ndarray \/ len(call.args[6]) # len(call.args[1])) =>
        call.raised # None

\* the value of a at place i, a single value being at every place
ElementOf(a, i) == IF a.ndarray THEN a.val[i] ELSE item(a)

Reduced(d) == CHOOSE r \in -179..180 : \E k \in -3..3 : d = r + 360 * k

\* C30: calcLmstLast reduces every longitude, single or element, to the
\* longitude of (-180, 180] degrees congruent to it (180 stays 180) before
\* dividing by 15, so that LMST and LAST are GMST and GAST plus the hours
\* of the reduced longitude modulo 24, do not change when whole turns are
\* added to the longitude, and differ by GAST - GMST modulo 24.
C30_LongitudeReduced ==
    (call.op = "calcLmstLast" /\ call.ret # None) =>
        LET gmstgast == calcGmstGast(call.args[1]).ret[1]
        IN  \A i \in DOMAIN call.ret[1][1].val :
                LET longRad == ElementOf(call.args[2], i)
                    mjd     == ElementOf(call.args[1], i)
                    longDeg == calcLmstLast_longDeg(longRad)
                    gmst    == ElementOf(gmstgast[1], i)
                    gast    == ElementOf(gmstgast[2], i)
                    lmst    == call.ret[1][1].val[i]
                    last    == call.ret[1][2].val[i]
                IN  /\ longDeg = Reduced(numpy_degrees(longRad))
                    /\ lmst = Turn(gmst + longDeg \div 15)
                    /\ last = Turn(gast + longDeg \div 15)
                    /\ \A k \in -2..2 :
                          calcLmstLast(scalar(mjd), scalar(longRad + k * TwoPi)).ret[1]
                              = <<scalar(lmst), scalar(last)>>
                    /\ Turn(last - lmst) = Turn(gast - gmst)
\* C30 witness: longitudes of exactly 180 degrees and of 195 degrees, which
\* is reduced to -165, in one call
C30_Witness ==
    /\ call.op = "calcLmstLast"
    /\ call.ret # None
    /\ call.args[2].ndarray
    /\ len(call.args[2]) >= 2
    /\ numpy_degrees(call.args[2].val[1]) = 180
    /\ calcLmstLast_longDeg(call.args[2].val[2]) = -165

\* C27: the hour angle of altAzToRaDec is -ha0 for every azimuth whose sine
\* is not negative (azimuth 0 and pi among them) and +ha0 otherwise, ha0
\* being the arccos, an angle of [0, pi]; the RA returned is
\* radians(15 * LAST) less that hour angle; an element of an array is
\* treated as the single value is.
C27_HourAngleBranch ==
    (call.op = "altAzToRaDec" /\ call.ret # None) =>
        LET last == calcLmstLast(call.args[5], call.args[3]).ret[1][2]
        IN  \A i \in DOMAIN call.ret[1][1].val :
                LET altRad == ElementOf(call.args[1], i)
                    azRad  == ElementOf(call.args[2], i)
                    latRad == item(call.args[4])
                    haRad0 == altAzToRaDec_haRad0(altRad, azRad, latRad)
                    haRad  == IF Turn(azRad) <= TwoPi \div 2 THEN -haRad0 ELSE haRad0
                    alone  == altAzToRaDec(scalar(altRad), scalar(azRad), call.args[3],
                                           call.args[4],
                                           scalar(ElementOf(call.args[5], i)))
                IN  /\ haRad0 \in 0..(TwoPi \div 2)
                    /\ call.ret[1][1].val[i]
                           = numpy_radians(15 * ElementOf(last, i)) - haRad
                    /\ call.ret[1][1].val[i] = item(alone.ret[1][1])
\* C27 witness: an array with azimuth pi, then an azimuth of negative sine,
\* neither hour angle zero
C27_Witness ==
    /\ call.op = "altAzToRaDec"
    /\ call.ret # None
    /\ call.args[2].ndarray
    /\ len(call.args[2]) >= 2
    /\ call.args[2].val[1] = TwoPi \div 2
    /\ numpy_sin_sign(call.args[2].val[2]) < 0
    /\ \A i \in 1..2 :
          altAzToRaDec_haRad0(call.args[1].val[i], call.args[2].val[i],
                              item(call.args[4])) # 0

\* v2, and whether the argument of numpy.arccos is just outside [-1, 1],
\* for place i of the call of _raDecFromNativeLonLat
EquatorialV2(i) ==
    equatorial_v2(call.args[1].val[i], call.args[2].val[i], call.args[3], call.args[4])
InverseArccosNaN(i) ==
    /\ cc_of(EquatorialV2(i)) > 0
    /\ y_outside(EquatorialV2(i), cc_of(EquatorialV2(i)), call.args[5][i])

\* C28: when numpy.arccos gives NaN for a place of _raDecFromNativeLonLat
\* (its argument is just outside [-1, 1]) the call does not fail and the
\* right ascension of the place is pi if the argument is negative and 0
\* otherwise, as in _nativeLonLatFromRaDec, for a single place and for a
\* place of a sequence.
C28_InverseNaNForced ==
    (call.op = "_raDecFromNativeLonLat"
     /\ \E i \in DOMAIN call.args[1].val : InverseArccosNaN(i)) =>
        /\ call.raised = None /\ call.ret # None
        /\ \A i \in DOMAIN call.args[1].val : InverseArccosNaN(i) =>
               call.ret[1][1].val[i]
                   = (IF sign_y(EquatorialV2(i), cc_of(EquatorialV2(i)),
                                call.args[5][i]) < 0
                      THEN numpy_pi ELSE Zero)

\* C23: every transformation works on a single value and on a sequence,
\* and element i of what it returns for sequences of one length is what it
\* returns for the single values at place i: cartesianFromSpherical,
\* sphericalFromCartesian, calcLmstLast and _nativeLonLatFromRaDec.
C23_TwoArities ==
    /\ (call.op = "cartesianFromSpherical"
         /\ call.args[1].ndarray /\ call.args[2].ndarray) =>
            /\ call.ret # None
            /\ \A i \in DOMAIN call.ret[1].val :
                   LET alone == cartesianFromSpherical(Single(call.args[1], i),
                                                       Single(call.args[2], i))
                   IN  /\ alone.raised = None /\ alone.ret # None
                       /\ alone.ret[1].val[1] = call.ret[1].val[i]
    /\ (call.op = "sphericalFromCartesian"
         /\ call.args[1].ndarray /\ Len(call.args[1].shape) > 1) =>
            /\ call.ret # None
            /\ \A i \in DOMAIN call.args[1].val :
                   LET alone == sphericalFromCartesian(
                                    points(<<3>>, <<call.args[1].val[i]>>))
                   IN  /\ alone.raised = None /\ alone.ret # None
                       /\ \A k \in 1..2 : item(alone.ret[1][k]) = call.ret[1][k].val[i]
    /\ (call.op = "calcLmstLast"
         /\ call.args[1].ndarray /\ call.args[2].ndarray) =>
            /\ call.ret # None
            /\ \A i \in DOMAIN call.args[1].val :
                   LET alone == calcLmstLast(Single(call.args[1], i),
                                             Single(call.args[2], i))
                   IN  /\ alone.raised = None /\ alone.ret # None
                       /\ \A k \in 1..2 : item(alone.ret[1][k]) = call.ret[1][k].val[i]
    /\ (call.op = "_nativeLonLatFromRaDec" /\ call.args[1].ndarray) =>
            /\ call.ret # None
            /\ \A i \in DOMAIN call.args[1].val :
                   /\ AsScalar(i).raised = None /\ AsScalar(i).ret # None
                   /\ \A k \in 1..2 : item(AsScalar(i).ret[1][k]) = call.ret[1][k].val[i]

\* the vector is a unit vector; its length is off by more than 0.01
IsUnit(v) == v[1] * v[1] + v[2] * v[2] + v[3] * v[3] = v[4] * v[4]
FarFromUnit(v) ==
    LET n == 10000 * (v[1] * v[1] + v[2] * v[2] + v[3] * v[3])
    IN  n < 99 * 99 * v[4] * v[4] \/ n > 101 * 101 * v[4] * v[4]
\* the matrix has numbers of one denominator and is orthonormal
Orthonormal(rot) ==
    /\ \A i \in 1..3 : \A j \in 1..3 : rot[i][j] # NaN /\ rot[i][j][2] = rot[1][1][2]
    /\ \A i \in 1..3 : \A j \in 1..3 :
          rot[i][1][1] * rot[j][1][1] + rot[i][2][1] * rot[j][2][1]
              + rot[i][3][1] * rot[j][3][1]
              = (IF i = j THEN rot[1][1][2] * rot[1][1][2] ELSE 0)
\* the matrix takes v1 to v2
Takes(rot, v1, v2) ==
    \A i \in 1..3 :
        (rot[i][1][1] * v1[1] + rot[i][2][1] * v1[2] + rot[i][3][1] * v1[3]) * v2[4]
            = rot[1][1][2] * v2[i] * v1[4]

\* C29: for every two unit vectors, equal and opposite ones included,
\* rotationMatrixFromVectors returns a matrix of finite numbers that is
\* orthonormal and takes v1 to v2; a vector whose length is off 1 by more
\* than 0.01 is rejected with a RuntimeError that names it.
C29_RotationMatrix ==
    call.op = "rotationMatrixFromVectors" =>
        LET v1 == call.args[1]
            v2 == call.args[2]
        IN  /\ (FarFromUnit(v1) \/ FarFromUnit(v2)) =>
                   /\ RaisedRuntimeError
                   /\ call.raised[1].msg[1] = (IF FarFromUnit(v1) THEN "v1" ELSE "v2")
            /\ (IsUnit(v1) /\ IsUnit(v2)) =>
                   /\ call.raised = None /\ call.ret # None
                   /\ Orthonormal(call.ret[1].val)
                   /\ Takes(call.ret[1].val, v1, v2)

====
